---- MODULE Spec2Model ----
(***************************************************************************)
(* A model of the daily-inspo idea store (app/database.py), its search     *)
(* endpoint (app/api/ideas.py) and the generation script                   *)
(* (scripts/generate_idea.py).                                             *)
(*                                                                         *)
(* Text is modelled as a tuple of one-character strings, so that LIKE      *)
(* matching, GROUP_CONCAT and split(',') are computed character by         *)
(* character.  A date is a clock reading (a positive integer); NULL and an *)
(* absent date are 0.                                                      *)
(***************************************************************************)
EXTENDS Integers, Sequences, FiniteSets, TLC

VARIABLES
    ideas,          \* table ideas: rows in rowid order
    ideaSeq,        \* sqlite_sequence of ideas (AUTOINCREMENT)
    tags,           \* table tags: rows in rowid order
    idea_tags,      \* table idea_tags: set of <<idea_id, tag_id>>
    market_data,    \* table market_data: set of rows
    generation_log, \* table generation_log: rows in rowid order
    now,            \* the wall clock read by datetime.now()
    resp,           \* what the last database / endpoint call returned
    writer,         \* the process holding SQLite's write lock (0: nobody)
    txn,            \* the uncommitted tables of the lock holder
    proc,           \* per process: the call it is in and its locals
    run,            \* the generation script's run: main() and retry_generation()
    chat,           \* chat: table chat_messages, the connection manager's
                    \* registry, what listeners were sent, the handler tasks
    projects        \* tables projects and idea_projects

dbvars == <<ideas, ideaSeq, tags, idea_tags, market_data, generation_log>>
vars == <<ideas, ideaSeq, tags, idea_tags, market_data, generation_log,
          now, resp, writer, txn, proc, run, chat, projects>>

-----------------------------------------------------------------------------
(* Bounds of the model *)

MaxIdeas == 2
MaxClock == 2
MaxBulkExtra == 2
MaxLog == 2

(* Program constants *)

DefaultLimit == 50
DefaultOffset == 0

-----------------------------------------------------------------------------
(* Text helpers *)

Min(a, b) == IF a < b THEN a ELSE b
Max(a, b) == IF a > b THEN a ELSE b

\* SQLite's LIKE folds ASCII letters only.
Fold(c) ==
    CASE c = "A" -> "a"
      [] c = "B" -> "b"
      [] c = "C" -> "c"
      [] OTHER -> c

RECURSIVE LikeMatch(_, _)
\* SQLite's LIKE: % matches any run of characters, _ any one character,
\* every other character matches itself up to ASCII case.
LikeMatch(pat, s) ==
    IF pat = <<>> THEN s = <<>>
    ELSE IF Head(pat) = "%"
         THEN LikeMatch(Tail(pat), s) \/ (s # <<>> /\ LikeMatch(pat, Tail(s)))
         ELSE /\ s # <<>>
              /\ (Head(pat) = "_" \/ Fold(Head(pat)) = Fold(Head(s)))
              /\ LikeMatch(Tail(pat), Tail(s))

\* search_term = f"%{filters['search']}%"
SearchTerm(search) == <<"%">> \o search \o <<"%">>

-----------------------------------------------------------------------------
(* Dictionaries: a Python dict is a function from its keys *)

Has(d, k) == k \in DOMAIN d
Get(d, k, default) == IF k \in DOMAIN d THEN d[k] ELSE default
Pop(d, ks) == [k \in (DOMAIN d) \ ks |-> d[k]]

\* filters.get(k) is truthy: the key is there and its value is not an empty
\* string or list (TruthySeq), or not None (TruthyDate; None is 0).
TruthySeq(d, k) == k \in DOMAIN d /\ d[k] # <<>>
\* `k in d and d[k]` for a dict value
TruthyDict(d, k) == Has(d, k) /\ DOMAIN d[k] # {}
TruthyDate(d, k) == k \in DOMAIN d /\ d[k] # 0

-----------------------------------------------------------------------------
(* The tables *)

IdeaIds(rows) == {rows[k].id : k \in 1..Len(rows)}
IdeaRow(rows, id) == rows[CHOOSE k \in 1..Len(rows) : rows[k].id = id]

\* INSERT INTO ideas (title, summary, description, supporting_logic,
\* generated_date): the new rowid is one more than the AUTOINCREMENT sequence.
InsertIdeaRow(rows, seq, d, date) ==
    Append(rows, [id |-> seq + 1, title |-> d.title, summary |-> d.summary,
                  description |-> d.description,
                  supporting_logic |-> d.supporting_logic,
                  generated_date |-> date])

HasTag(tgs, c, v) ==
    \E k \in 1..Len(tgs) : tgs[k].category = c /\ tgs[k].value = v

\* A tags table without UNIQUE(category, value): every insert adds a row.
InsertTagAlways(tgs, c, v) ==
    Append(tgs, [id |-> Len(tgs) + 1, category |-> c, value |-> v])

\* INSERT OR IGNORE INTO tags (category, value), under UNIQUE(category, value)
InsertOrIgnoreTag(tgs, c, v) ==
    IF HasTag(tgs, c, v) THEN tgs
    ELSE Append(tgs, [id |-> Len(tgs) + 1, category |-> c, value |-> v])

\* SELECT id FROM tags WHERE category = ? AND value = ?  (first row; 0: none)
SelectTagId(tgs, c, v) ==
    IF HasTag(tgs, c, v)
    THEN LET k == CHOOSE k \in 1..Len(tgs) :
                    /\ tgs[k].category = c /\ tgs[k].value = v
                    /\ \A j \in 1..(k - 1) :
                          ~(tgs[j].category = c /\ tgs[j].value = v)
         IN tgs[k].id
    ELSE 0

\* One turn of the tag loop: insert or find the tag, then
\* INSERT OR IGNORE INTO idea_tags (idea_id, tag_id).
LinkTag(t, idea_id, tag) ==
    LET tgs == InsertOrIgnoreTag(t.tags, tag.category, tag.value)
        tid == SelectTagId(tgs, tag.category, tag.value)
    IN [t EXCEPT !.tags = tgs,
                 !.idea_tags = IF tid = 0 THEN @ ELSE @ \cup {<<idea_id, tid>>}]

RECURSIVE LinkTags(_, _, _)
LinkTags(t, idea_id, tagList) ==
    IF tagList = <<>> THEN t
    ELSE LinkTags(LinkTag(t, idea_id, Head(tagList)), idea_id, Tail(tagList))

\* The tables as one value: what a connection sees and what a commit installs.
Tables ==
    [ideas |-> ideas, ideaSeq |-> ideaSeq, tags |-> tags,
     idea_tags |-> idea_tags, market_data |-> market_data,
     generation_log |-> generation_log]

Install(t) ==
    /\ ideas' = t.ideas
    /\ ideaSeq' = t.ideaSeq
    /\ tags' = t.tags
    /\ idea_tags' = t.idea_tags
    /\ market_data' = t.market_data
    /\ generation_log' = t.generation_log

\* The INSERT INTO ideas statement of insert_idea and store_idea_in_database.
WithIdea(t, d, date) ==
    [t EXCEPT !.ideas = InsertIdeaRow(t.ideas, t.ideaSeq, d, date),
              !.ideaSeq = t.ideaSeq + 1]

\* DELETE FROM ideas WHERE id = ? without the cascade to idea_tags.
DeleteRowsNoCascade(t, id) ==
    [t EXCEPT !.ideas = SelectSeq(t.ideas, LAMBDA r : r.id # id),
              !.market_data = {m \in t.market_data : m.idea_id # id}]

\* DELETE FROM ideas WHERE id = ? with foreign keys on: the idea_tags and
\* market_data rows go with it (ON DELETE CASCADE); tags rows stay.
DeleteRows(t, id) ==
    [t EXCEPT !.ideas = SelectSeq(t.ideas, LAMBDA r : r.id # id),
              !.idea_tags = {it \in t.idea_tags : it[1] # id},
              !.market_data = {m \in t.market_data : m.idea_id # id}]

\* generation_log.idea_id REFERENCES ideas (id) has no ON DELETE action:
\* with foreign keys on, deleting a referenced idea is refused.
LogReferences(t, id) ==
    \E k \in 1..Len(t.generation_log) : t.generation_log[k].idea_id = id

\* INSERT INTO generation_log (success, error_message, execution_time, idea_id);
\* timestamp DEFAULT CURRENT_TIMESTAMP is the clock (UTC) at the insert
WithLog(t, success, idea_id, clock) ==
    [t EXCEPT !.generation_log =
        Append(@, [success |-> success, idea_id |-> idea_id,
                   timestamp |-> clock])]

-----------------------------------------------------------------------------
(* get_ideas_with_filters *)

TagCategories == {"industry", "target_market", "complexity", "technology"}

InList(v, list) == \E k \in 1..Len(list) : list[k] = v

\* if filters.get('industry') or filters.get('target_market') or ...
HasTagFilter(f) == \E c \in TagCategories : TruthySeq(f, c)

\* ((t.category = 'industry' AND t.value IN (...)) OR (t.category = ... ))
TagCondition(f, tag) ==
    \E c \in TagCategories :
        TruthySeq(f, c) /\ tag.category = c /\ InList(tag.value, f[c])

\* (i.title LIKE ? OR i.summary LIKE ? OR i.description LIKE ?)
SearchCondition(f, i) ==
    TruthySeq(f, "search") =>
        \/ LikeMatch(SearchTerm(f["search"]), i.title)
        \/ LikeMatch(SearchTerm(f["search"]), i.summary)
        \/ LikeMatch(SearchTerm(f["search"]), i.description)

\* i.generated_date >= ? AND i.generated_date <= ?
DateCondition(f, i) ==
    /\ TruthyDate(f, "date_from") => i.generated_date >= f["date_from"]
    /\ TruthyDate(f, "date_to") => i.generated_date <= f["date_to"]

\* FROM ideas i [JOIN idea_tags it ON i.id = it.idea_id JOIN tags t ON
\* it.tag_id = t.id] WHERE ...: the rows of the join that pass the WHERE
\* clause, each as <<idea id>> or <<idea id, tag id>>.
JoinedRows(t, f) ==
    IF HasTagFilter(f)
    THEN {<<t.ideas[k].id, t.tags[j].id>> :
            <<k, j>> \in {kj \in (1..Len(t.ideas)) \X (1..Len(t.tags)) :
                /\ <<t.ideas[kj[1]].id, t.tags[kj[2]].id>> \in t.idea_tags
                /\ TagCondition(f, t.tags[kj[2]])
                /\ SearchCondition(f, t.ideas[kj[1]])
                /\ DateCondition(f, t.ideas[kj[1]])}}
    ELSE {<<t.ideas[k].id>> :
            k \in {k \in 1..Len(t.ideas) :
                /\ SearchCondition(f, t.ideas[k])
                /\ DateCondition(f, t.ideas[k])}}

\* SELECT i.* without DISTINCT: one result row per row of the join.
SelectAll(rows) == rows

\* SELECT DISTINCT i.*: one result row per idea.
SelectDistinct(rows) == {<<r[1]>> : r \in rows}

RowDate(t, r) == IdeaRow(t.ideas, r[1]).generated_date

RECURSIVE Orders(_, _)
\* ORDER BY i.generated_date DESC: every arrangement of the rows in which
\* the dates never increase.  SQL leaves the order of rows with equal dates
\* to the query plan.
Orders(t, rows) ==
    IF rows = {} THEN {<<>>}
    ELSE LET top == {r \in rows :
                        \A q \in rows : RowDate(t, q) <= RowDate(t, r)}
         IN UNION {{<<r>> \o rest : rest \in Orders(t, rows \ {r})} : r \in top}

\* LIMIT ? OFFSET ?
Window(s, limit, offset) == SubSeq(s, offset + 1, Min(Len(s), offset + limit))

\* SELECT t.category, t.value FROM tags t JOIN idea_tags it ON t.id =
\* it.tag_id WHERE it.idea_id = ?
TagsOfIdea(t, id) ==
    {[category |-> t.tags[j].category, value |-> t.tags[j].value] :
        j \in {j \in 1..Len(t.tags) : <<id, t.tags[j].id>> \in t.idea_tags}}

\* idea = dict(row); idea['tags'] = [...]
Enrich(t, s) ==
    [k \in 1..Len(s) |->
        LET row == IdeaRow(t.ideas, s[k][1])
        IN [id |-> row.id, title |-> row.title, summary |-> row.summary,
            description |-> row.description,
            generated_date |-> row.generated_date,
            tags |-> TagsOfIdea(t, row.id)]]

\* The lists get_ideas_with_filters(filters) can return on tables t.
GetIdeasWithFilters(t, f) ==
    {Enrich(t, Window(o, Get(f, "limit", DefaultLimit),
                         Get(f, "offset", DefaultOffset))) :
        o \in Orders(t, SelectDistinct(JoinedRows(t, f)))}

\* count_ideas_with_filters(filters): the values it can return on tables t.
CountIdeasWithFilters(t, f) ==
    {Len(r) : r \in GetIdeasWithFilters(t, Pop(f, {"limit", "offset"}))}

\* The ideas that pass the filter predicate, pagination aside.
MatchingIds(t, f) == {r[1] : r \in JoinedRows(t, f)}

-----------------------------------------------------------------------------
(* get_available_tags *)

Alphabet == <<"%", ",", "A", "B", "C", "_", "a", "b", "c", "i", "l", "m", "w", "x">>
Ord(c) == CHOOSE k \in 1..Len(Alphabet) : Alphabet[k] = c

RECURSIVE StrLess(_, _)
\* Python's str comparison
StrLess(a, b) ==
    IF b = <<>> THEN FALSE
    ELSE IF a = <<>> THEN TRUE
    ELSE IF Head(a) = Head(b) THEN StrLess(Tail(a), Tail(b))
    ELSE Ord(Head(a)) < Ord(Head(b))

RECURSIVE Sorted(_)
\* sorted(list(set(...)))
Sorted(S) ==
    IF S = {} THEN <<>>
    ELSE LET m == CHOOSE x \in S : \A y \in S \ {x} : StrLess(x, y)
         IN <<m>> \o Sorted(S \ {m})

RECURSIVE GroupConcat(_)
\* GROUP_CONCAT(value, ','): the values of the group joined by commas
GroupConcat(vals) ==
    IF vals = <<>> THEN <<>>
    ELSE IF Len(vals) = 1 THEN vals[1]
    ELSE vals[1] \o <<",">> \o GroupConcat(Tail(vals))

RECURSIVE SplitFrom(_, _)
\* str.split(','): the pieces between the commas, cur being the piece so far
SplitFrom(s, cur) ==
    IF s = <<>> THEN <<cur>>
    ELSE IF Head(s) = "," THEN <<cur>> \o SplitFrom(Tail(s), <<>>)
    ELSE SplitFrom(Tail(s), Append(cur, Head(s)))

Split(s) == SplitFrom(s, <<>>)

\* FROM tags t JOIN idea_tags it ON t.id = it.tag_id: the tag of each
\* idea_tags row, as <<idea_id, tag index>>
TagJoin(t) ==
    {<<it[1], j>> : <<it, j>> \in {x \in t.idea_tags \X (1..Len(t.tags)) :
                                     t.tags[x[2]].id = x[1][2]}}

RECURSIVE GroupValues(_, _, _)
\* The values of category c over the joined rows, one per row.
GroupValues(t, c, rows) ==
    IF rows = {} THEN <<>>
    ELSE LET r == CHOOSE r \in rows :
                    \A q \in rows : r[1] < q[1] \/ (r[1] = q[1] /\ r[2] <= q[2])
         IN (IF t.tags[r[2]].category = c THEN <<t.tags[r[2]].value>> ELSE <<>>)
            \o GroupValues(t, c, rows \ {r})

SeqToSet(s) == {s[k] : k \in 1..Len(s)}

\* get_available_tags(): GROUP BY category, then
\* result[category] = sorted(list(set(row[1].split(',')))) (or [] for '')
GetAvailableTags(t) ==
    LET cats == {t.tags[r[2]].category : r \in TagJoin(t)}
    IN [c \in cats |->
          LET joined == GroupConcat(GroupValues(t, c, TagJoin(t)))
          IN IF joined = <<>> THEN <<>> ELSE Sorted(SeqToSet(Split(joined)))]

-----------------------------------------------------------------------------
(* Inputs *)

AI == <<"a", "i">>
ML == <<"m", "l">>
WM == <<"w", ",", "m">>

Tag(c, v) == [category |-> c, value |-> v]

Text1 == [title |-> <<"a", "b">>, summary |-> <<"x">>, description |-> <<"x">>,
          supporting_logic |-> <<"l">>]
Text2 == [title |-> <<"x">>, summary |-> <<"A", "c">>, description |-> <<"x">>,
          supporting_logic |-> <<"l">>]
Text3 == [title |-> <<"x">>, summary |-> <<"x">>, description |-> <<"a", "b", "c">>,
          supporting_logic |-> <<"l">>]

\* dict(a, **b)
Merge(a, b) ==
    [k \in (DOMAIN a) \cup (DOMAIN b) |-> IF k \in DOMAIN b THEN b[k] ELSE a[k]]

NoKeys == [k \in {} |-> 0]

\* idea_data dictionaries handed to store_idea_in_database
StorePayloads ==
    {Merge(Text1, [tags |-> <<Tag("technology", AI)>>]),
     Merge(Text2, [tags |-> <<Tag("technology", AI), Tag("technology", ML)>>]),
     Merge(Text3, [tags |-> <<Tag("industry", WM), Tag("complexity", <<"m">>)>>]),
     Merge(Text1, [tags |-> <<Tag("target_market", <<"b">>), Tag("technology", <<"a">>)>>])}

\* idea_data dictionaries handed to insert_idea
InsertPayloads ==
    {Text2,
     Merge(Text3, [generated_date |-> 1]),
     Merge(Text1, [tags |-> <<Tag("technology", AI)>>]),
     Merge(Text1, [tags |-> <<>>, market_data |-> [market_size |-> <<"x">>]])}

BulkPayload == Merge(Text1, [tags |-> <<Tag("technology", AI)>>])

SearchOptions == {<<>>, <<"A", "B">>, <<"a", "_">>}

TagOptions ==
    {NoKeys,
     [technology |-> <<AI>>],
     [technology |-> <<AI, ML>>],
     [industry |-> <<WM>>, complexity |-> <<(<<"m">>)>>],
     [target_market |-> <<(<<"b">>)>>, technology |-> <<>>]}

PageOptions ==
    {[limit |-> 1, offset |-> 0], [limit |-> 1, offset |-> 1],
     [limit |-> DefaultLimit, offset |-> 0]}

DateOptions == {[date_from |-> 2], [date_to |-> 1], [date_from |-> 1, date_to |-> 0]}

\* filters dictionaries handed to get_ideas_with_filters and
\* count_ideas_with_filters
Filters ==
    {Merge(Merge(IF s = <<>> THEN NoKeys ELSE [search |-> s], tg), pg) :
        s \in SearchOptions, tg \in TagOptions, pg \in PageOptions \cup {NoKeys}}
    \cup {Merge(Merge(d, tg), pg) :
            d \in DateOptions, tg \in {NoKeys, [technology |-> <<AI>>]},
            pg \in {NoKeys}}

\* Query parameters of GET /api/ideas/search/ (None is <<>>)
SearchParams ==
    {Merge(Merge([q |-> s], pg),
           Merge([c \in TagCategories |-> <<>>], tg)) :
        s \in SearchOptions, tg \in TagOptions, pg \in PageOptions}

BulkFilters ==
    {NoKeys, [limit |-> 1, offset |-> 0], [technology |-> <<AI>>],
     [search |-> <<"a">>, limit |-> DefaultLimit, offset |-> DefaultLimit],
     [technology |-> <<ML>>]}

BulkSearchParams ==
    {Merge(Merge([q |-> s], pg), Merge([c \in TagCategories |-> <<>>], tg)) :
        s \in {<<>>, <<"a">>}, tg \in {NoKeys, [technology |-> <<ML>>]},
        pg \in {[limit |-> DefaultLimit, offset |-> 0],
                [limit |-> DefaultLimit, offset |-> DefaultLimit],
                [limit |-> 1, offset |-> DefaultLimit]}}

-----------------------------------------------------------------------------
(* The calls, each as one unit of work *)

NoResp == [op |-> "none"]
NoTxn == [owner |-> 0]
Procs == {1, 2}
Idle == [pc |-> "idle"]
NoRun == [pc |-> "none"]

\* Chat: handler calls per behaviour and websocket listeners
MaxTasks == 2
MaxListeners == 2

Tasks == 1..MaxTasks
Listeners == 1..MaxListeners

\* The chat sessions that exist (rows of chat_sessions), and one id that
\* has no row
Sessions == {1, 2}
NoSession == 3

\* The listener registry in full, for the tasks that share it: the dict's
\* keys (dict[s] = 0: s is no key, else the list object it maps to), the
\* list objects made so far, each websocket's state ("new", "open", "gone":
\* the peer went away, "closed": closed by the server, "ended": its handler
\* is over), the send_message and delete_chat_session calls in progress,
\* what raised, and the sessions a delete was called for
NoRegistry ==
    [dict |-> [s \in Sessions |-> 0],
     lists |-> [k \in Listeners |-> <<>>],
     made |-> 0,
     ws |-> [l \in Listeners |-> [state |-> "new", s |-> 0]],
     bcast |-> [pc |-> "idle"],
     del |-> [pc |-> "idle"],
     raised |-> {},
     asked |-> {}]

\* manager = ChatConnectionManager(): no connections; no messages stored,
\* no handler running
NoChat ==
    [reg |-> NoRegistry,
     messages |-> <<>>,
     active_connections |-> [s \in Sessions |-> <<>>],
     sent |-> [l \in Listeners |-> <<>>],
     dead |-> {},
     joined |-> {},
     received |-> <<>>,
     task |-> [t \in Tasks |-> [pc |-> "idle"]]]

\* Tables projects (rows in rowid order) and idea_projects (a set of
\* <<idea_id, project_id>>), both empty
NoProjects == [rows |-> <<>>, idea_projects |-> {}]

\* A second connection that wants to write while connection `holder` has
\* uncommitted writes gets "database is locked" when its busy timeout ends.
Locked(holder) == holder # 0

\* insert_idea(idea_data): what it leaves in the tables and what it returns.
\* The INSERT INTO ideas runs on the connection of get_db_cursor();
\* insert_idea_tags and insert_market_data open a connection of their own
\* while the first one holds the write lock, so they raise and the outer
\* unit of work rolls back.
InsertIdeaOutcome(t, d, clock) ==
    LET t1 == WithIdea(t, d, Get(d, "generated_date", clock))
        holder == 1
        nested == TruthySeq(d, "tags") \/ TruthyDict(d, "market_data")
    IN IF nested /\ Locked(holder)
       THEN [tables |-> t, raised |-> TRUE, id |-> 0]
       ELSE [tables |-> t1, raised |-> FALSE, id |-> t1.ideaSeq]

\* json.dumps(list) and json.loads(text) for a list of texts
JsonDumps(list) == <<"json", list>>
JsonLoads(text) == text[2]

\* insert_market_data(idea_id, market_data): INSERT OR REPLACE INTO
\* market_data (idea_id is UNIQUE); absent sub-fields are NULL, competitors
\* is stored as JSON text
WithMarketData(t, idea_id, md) ==
    [t EXCEPT !.market_data =
        {m \in @ : m.idea_id # idea_id} \cup
        {[idea_id |-> idea_id,
          market_size |-> Get(md, "market_size", <<"None">>),
          competitors |-> JsonDumps(Get(md, "competitors", <<>>)),
          technical_feasibility |-> Get(md, "technical_feasibility", <<"None">>),
          development_timeline |-> Get(md, "development_timeline", <<"None">>)]}]

\* A storage step that wrote the market data as well, as the first of the
\* two definitions of store_idea_in_database (through insert_idea) would
StoreWithMarketData(t, d, clock) ==
    LET t1 == WithIdea(t, d, clock)
        id == t1.ideaSeq
        t2 == IF TruthySeq(d, "tags") THEN LinkTags(t1, id, d["tags"]) ELSE t1
    IN [tables |-> IF TruthyDict(d, "market_data")
                   THEN WithMarketData(t2, id, d["market_data"]) ELSE t2,
        id |-> id]

\* One attempt of store_idea_in_database(idea_data) that gets the write
\* lock: INSERT INTO ideas with datetime.now(), the tag loop, commit.
StoreIdeaOutcome(t, d, clock) ==
    LET t1 == WithIdea(t, d, clock)
        id == t1.ideaSeq
    IN [tables |-> IF TruthySeq(d, "tags") THEN LinkTags(t1, id, d["tags"]) ELSE t1,
        id |-> id]

\* delete_idea(idea_id): False when the row is missing; False when the
\* DELETE raises (a generation_log row references the idea); else True.
DeleteIdeaOutcome(t, id) ==
    IF id \notin IdeaIds(t.ideas) THEN [tables |-> t, result |-> FALSE]
    ELSE IF LogReferences(t, id) THEN [tables |-> t, result |-> FALSE]
    ELSE [tables |-> DeleteRows(t, id), result |-> TRUE]

\* if q: filters['search'] = q ... (search_ideas)
BuildSearchFilters(p) ==
    Merge([k \in ({"search"} \cup TagCategories) \cap
                 {k \in {"search"} \cup TagCategories :
                     IF k = "search" THEN p["q"] # <<>> ELSE p[k] # <<>>} |->
              IF k = "search" THEN p["q"] ELSE p[k]],
          [limit |-> p["limit"], offset |-> p["offset"]])

Quiet == UNCHANGED <<writer, txn, proc, run, chat, projects>>

\* The caller has the previous call's result and makes the next call.
Ready == resp = NoResp

\* The result of the last call reaches its caller.
Return ==
    /\ resp # NoResp
    /\ resp' = NoResp
    /\ UNCHANGED <<dbvars, now>>
    /\ Quiet

InsertIdea(d) ==
    /\ ideaSeq < MaxIdeas
    /\ Ready
    /\ LET o == InsertIdeaOutcome(Tables, d, now)
       IN /\ Install(o.tables)
          /\ resp' = [op |-> "insert_idea", raised |-> o.raised, id |-> o.id]
    /\ UNCHANGED now
    /\ Quiet

\* dt: whether the clock moves on while the call runs
StoreIdea(d, dt) ==
    /\ Ready
    /\ LET o == StoreIdeaOutcome(Tables, d, now)
       IN /\ Install(o.tables)
          /\ resp' = [op |-> "store_idea_in_database", id |-> o.id]
    /\ now' = now + dt
    /\ Quiet

Tick ==
    /\ now < MaxClock
    /\ Ready
    /\ now' = now + 1
    /\ UNCHANGED <<dbvars, resp>>
    /\ Quiet

GetIdeas(f) ==
    /\ Ready
    /\ \E r \in GetIdeasWithFilters(Tables, f) :
          resp' = [op |-> "get_ideas_with_filters", filters |-> f, ideas |-> r]
    /\ UNCHANGED <<dbvars, now>>
    /\ Quiet

CountIdeas(f) ==
    /\ Ready
    /\ \E n \in CountIdeasWithFilters(Tables, f) :
          resp' = [op |-> "count_ideas_with_filters", filters |-> f, count |-> n]
    /\ UNCHANGED <<dbvars, now>>
    /\ Quiet

\* search_ideas: ideas = get_ideas_with_filters(filters); total_count =
\* count_ideas_with_filters(filters); has_more = (offset + limit) < total_count
SearchIdeas(p) ==
    /\ Ready
    /\ LET f == BuildSearchFilters(p)
       IN \E r \in GetIdeasWithFilters(Tables, f),
             n \in CountIdeasWithFilters(Tables, f) :
            resp' = [op |-> "search_ideas", filters |-> f, ideas |-> r,
                     total_count |-> n,
                     has_more |-> (p["offset"] + p["limit"]) < n]
    /\ UNCHANGED <<dbvars, now>>
    /\ Quiet

AvailableTags ==
    /\ Ready
    /\ resp' = [op |-> "get_available_tags", result |-> GetAvailableTags(Tables)]
    /\ UNCHANGED <<dbvars, now>>
    /\ Quiet

\* log_generation_attempt(success, idea_id=idea_id) as the generation script
\* calls it: success with the id of a stored idea, or failure with no id.
LogGenerationAttempt(success, idea_id) ==
    /\ Ready
    /\ Len(generation_log) < MaxLog
    /\ Install(WithLog(Tables, success, idea_id, now))
    /\ resp' = [op |-> "log_generation_attempt"]
    /\ UNCHANGED now
    /\ Quiet

\* before: the tables as the call found them
DeleteIdea(id) ==
    /\ Ready
    /\ LET o == DeleteIdeaOutcome(Tables, id)
       IN /\ Install(o.tables)
          /\ resp' = [op |-> "delete_idea", id |-> id, result |-> o.result,
                      before |-> Tables]
    /\ UNCHANGED now
    /\ Quiet

Init ==
    /\ ideas = <<>>
    /\ ideaSeq = 0
    /\ tags = <<>>
    /\ idea_tags = {}
    /\ market_data = {}
    /\ generation_log = <<>>
    /\ now = 1
    /\ resp = NoResp
    /\ writer = 0
    /\ txn = NoTxn
    /\ proc = [p \in Procs |-> Idle]
    /\ run = NoRun
    /\ chat = NoChat
    /\ projects = NoProjects

Next ==
    \/ \E d \in InsertPayloads : InsertIdea(d)
    \/ \E d \in StorePayloads : ideaSeq < MaxIdeas /\ StoreIdea(d, 0)
    \/ Tick
    \/ \E f \in Filters : GetIdeas(f)
    \/ \E f \in Filters : CountIdeas(f)
    \/ \E p \in SearchParams : SearchIdeas(p)
    \/ AvailableTags
    \/ Return

\* The store with small contents, every call one unit of work.
Spec == Init /\ [][Next]_vars

StoreNext ==
    \/ \E d \in InsertPayloads : InsertIdea(d)
    \/ \E d \in StorePayloads : ideaSeq < MaxIdeas /\ StoreIdea(d, 0)
    \/ \E id \in IdeaIds(ideas) : LogGenerationAttempt(TRUE, id)
    \/ LogGenerationAttempt(FALSE, 0)
    \/ \E id \in 1..MaxIdeas : DeleteIdea(id)
    \/ Return

\* The store under inserts, generation-log writes and deletes.
SpecStore == Init /\ [][StoreNext]_vars

BulkNext ==
    \/ /\ ideaSeq < DefaultLimit + MaxBulkExtra
       /\ StoreIdea(BulkPayload, 1)
    \/ \E f \in BulkFilters : GetIdeas(f)
    \/ \E f \in BulkFilters : CountIdeas(f)
    \/ \E p \in BulkSearchParams : SearchIdeas(p)
    \/ Return

\* The store filled by one generation run after another, the clock moving
\* on between them, up to a little more than the default page size.
SpecBulk == Init /\ [][BulkNext]_vars

-----------------------------------------------------------------------------
(* Properties of the queries *)

\* C1: count_ideas_with_filters(f) returns the number of distinct ideas that
\* satisfy f's predicate, whatever limit or offset f carries and however
\* many ideas match.
C1_CountIsTotalMatching ==
    resp.op = "count_ideas_with_filters" =>
        resp.count = Cardinality(MatchingIds(Tables, resp.filters))

\* C2: the search response's total_count is the number of ideas matching
\* the filters, pagination aside, and has_more is true exactly when the
\* full list of matching ideas has an element at position >= offset + limit.
C2_SearchTotalAndHasMore ==
    resp.op = "search_ideas" =>
        LET total == Cardinality(MatchingIds(Tables, resp.filters))
        IN /\ resp.total_count = total
           /\ resp.has_more =
                (total > resp.filters["offset"] + resp.filters["limit"])

\* s contains sub as a substring, letters compared without regard to case
ContainsText(s, sub) ==
    \E k \in 0..(Len(s) - Len(sub)) :
        \A j \in 1..Len(sub) : Fold(s[k + j]) = Fold(sub[j])

\* The predicate the filter design rule states for idea row i.
SelectedByRule(t, f, i) ==
    /\ \/ \A c \in TagCategories : ~TruthySeq(f, c)
       \/ \E c \in TagCategories, j \in 1..Len(t.tags) :
            /\ TruthySeq(f, c)
            /\ <<i.id, t.tags[j].id>> \in t.idea_tags
            /\ t.tags[j].category = c
            /\ InList(t.tags[j].value, f[c])
    /\ \/ ~TruthySeq(f, "search")
       \/ ContainsText(i.title, f["search"])
       \/ ContainsText(i.summary, f["search"])
       \/ ContainsText(i.description, f["search"])
    /\ TruthyDate(f, "date_from") => i.generated_date >= f["date_from"]
    /\ TruthyDate(f, "date_to") => i.generated_date <= f["date_to"]

\* C3: get_ideas_with_filters returns, within the limit/offset window,
\* exactly the ideas the filter rule selects (supplied tag categories ORed,
\* search text a substring of title, summary or description, date bounds),
\* each once, each with its full tag list, and untagged ideas only when no
\* tag filter is supplied.
C3_ResultIsRuleSelection ==
    resp.op = "get_ideas_with_filters" =>
        LET f == resp.filters
            r == resp.ideas
            selected == {ideas[k].id : k \in {k \in 1..Len(ideas) :
                                          SelectedByRule(Tables, f, ideas[k])}}
            limit == Get(f, "limit", DefaultLimit)
            offset == Get(f, "offset", DefaultOffset)
        IN /\ \A k \in 1..Len(r) : r[k].id \in selected
           /\ \A k, j \in 1..Len(r) : r[k].id = r[j].id => k = j
           /\ Len(r) = Min(limit, Max(0, Cardinality(selected) - offset))
           /\ \A k \in 1..Len(r) : r[k].tags = TagsOfIdea(Tables, r[k].id)
           /\ \A k \in 1..Len(r) :
                r[k].tags = {} => \A c \in TagCategories : ~TruthySeq(f, c)

\* C4: the list get_ideas_with_filters returns is sorted by generated_date
\* descending, and ideas with equal generated_date come in insertion order.
C4_SortedNewestFirstStable ==
    resp.op = "get_ideas_with_filters" =>
        \A k \in 1..(Len(resp.ideas) - 1) :
            \/ resp.ideas[k].generated_date > resp.ideas[k + 1].generated_date
            \/ /\ resp.ideas[k].generated_date = resp.ideas[k + 1].generated_date
               /\ resp.ideas[k].id < resp.ideas[k + 1].id

\* The values of category c attached to at least one idea.
AttachedValues(c) ==
    {tags[j].value : j \in {j \in 1..Len(tags) :
        /\ tags[j].category = c
        /\ \E it \in idea_tags : it[2] = tags[j].id}}

\* C5: get_available_tags maps exactly the categories with an attached tag,
\* each to exactly its attached values, every value once, in sorted order.
C5_AvailableTagsExact ==
    resp.op = "get_available_tags" =>
        LET cats == {tags[j].category : j \in 1..Len(tags)}
            res == resp.result
        IN /\ DOMAIN res = {c \in cats : AttachedValues(c) # {}}
           /\ \A c \in DOMAIN res :
                /\ SeqToSet(res[c]) = AttachedValues(c)
                /\ Len(res[c]) = Cardinality(AttachedValues(c))
                /\ \A k \in 1..(Len(res[c]) - 1) : StrLess(res[c][k], res[c][k + 1])

\* C6: delete_idea(id) on an existing id returns True and leaves no ideas,
\* idea_tags or market_data row of id and no generation_log row referencing
\* id, with every tags row and every other idea's rows unchanged; on a
\* missing id it returns False and changes nothing.
C6_DeleteRemovesIdeaAndReferences ==
    resp.op = "delete_idea" =>
        LET b == resp.before
            id == resp.id
        IN IF id \in IdeaIds(b.ideas)
           THEN /\ resp.result = TRUE
                /\ ideas = SelectSeq(b.ideas, LAMBDA r : r.id # id)
                /\ idea_tags = {it \in b.idea_tags : it[1] # id}
                /\ market_data = {m \in b.market_data : m.idea_id # id}
                /\ \A k \in 1..Len(generation_log) : generation_log[k].idea_id # id
                /\ tags = b.tags
           ELSE resp.result = FALSE /\ Tables = b

-----------------------------------------------------------------------------
(* Concurrent callers: every statement a step, writers serialised by       *)
(* SQLite's write lock.  The lock is taken by a connection's first writing *)
(* statement and released by its commit or rollback; the holder works on   *)
(* its own copy of the tables (txn), which its commit installs.            *)

MaxStoreAttempts == 5

\* retry_delay = 1 (seconds), counted in sixteenths of a second so that the
\* four waits of a call are whole numbers
RetryDelay == 16

\* An unchanged delay between attempts
NoBackoff(d) == d

\* retry_delay *= 1.5
Backoff(d) == (d * 3) \div 2

\* conn.close() that would keep the open transaction's writes
CloseKeeps(t, tx) == tx.tables

\* finally: conn.close() without a commit: the connection's uncommitted
\* writes are rolled back and the committed tables t stay as they are
Close(t, tx) == t

ConcStorePayloads ==
    {Merge(Text1, [tags |-> <<Tag("technology", AI)>>]),
     Merge(Text2, [tags |-> <<Tag("technology", AI), Tag("technology", ML)>>])}

ConcInsertPayloads ==
    {Text2, Merge(Text1, [tags |-> <<Tag("technology", AI)>>])}

Others == UNCHANGED <<now, resp, run, chat, projects>>

\* Calls that will still insert an ideas row
Inserting ==
    {p \in Procs : proc[p].pc \in {"store_insert", "ins_insert"}}

CallStore(p, d) ==
    /\ proc[p].pc = "idle"
    /\ ideaSeq + Cardinality(Inserting) < MaxIdeas
    /\ proc' = [proc EXCEPT ![p] =
                   [pc |-> "store_insert", op |-> "store_idea_in_database",
                    d |-> d, attempt |-> 0, id |-> 0, k |-> 1,
                    retry_delay |-> RetryDelay, waits |-> <<>>,
                    tries |-> 1, errors |-> 0, commits |-> 0]]
    /\ UNCHANGED <<dbvars, writer, txn>>
    /\ Others

\* cursor.execute(INSERT INTO ideas ...) gets the write lock.
StoreBegin(p) ==
    /\ proc[p].pc = "store_insert"
    /\ writer = 0
    /\ LET t == WithIdea(Tables, proc[p].d, now)
       IN /\ txn' = [owner |-> p, tables |-> t]
          /\ proc' = [proc EXCEPT ![p].id = t.ideaSeq,
                        ![p].pc = IF TruthySeq(proc[p].d, "tags")
                                  THEN "store_tags" ELSE "store_commit"]
    /\ writer' = p
    /\ UNCHANGED dbvars
    /\ Others

\* The busy timeout ends with the lock still held by another connection:
\* sqlite3.OperationalError "database is locked"; the call sleeps
\* retry_delay, stretches it and goes on to the next attempt; after the
\* last attempt it neither sleeps nor tries again and returns None.
StoreBusy(p) ==
    /\ proc[p].pc = "store_insert"
    /\ Locked(writer)
    /\ proc' = [proc EXCEPT ![p] =
                  IF proc[p].attempt < MaxStoreAttempts - 1
                  THEN [@ EXCEPT !.attempt = @ + 1,
                                 !.tries = @ + 1,
                                 !.waits = Append(@, proc[p].retry_delay),
                                 !.retry_delay = Backoff(@)]
                  ELSE [@ EXCEPT !.pc = "done", !.attempt = @ + 1, !.id = 0]]
    /\ UNCHANGED <<dbvars, writer, txn>>
    /\ Others

\* Any other error of an attempt (an OperationalError that is not about a
\* lock, or any other exception), before or inside the transaction: the
\* connection is closed and the call returns None.
StoreError(p) ==
    /\ proc[p].pc \in {"store_insert", "store_tags", "store_commit"}
    /\ IF txn.owner = p
       THEN /\ Install(Close(Tables, txn))
            /\ writer' = 0
            /\ txn' = NoTxn
       ELSE UNCHANGED <<dbvars, writer, txn>>
    /\ proc' = [proc EXCEPT ![p] =
                  [@ EXCEPT !.pc = "done", !.errors = @ + 1, !.id = 0]]
    /\ Others

\* One turn of the tag loop, inside the transaction.
StoreTag(p) ==
    /\ proc[p].pc = "store_tags"
    /\ txn' = [txn EXCEPT !.tables =
                 LinkTag(@, proc[p].id, proc[p].d["tags"][proc[p].k])]
    /\ proc' = [proc EXCEPT ![p].k = @ + 1,
                  ![p].pc = IF proc[p].k = Len(proc[p].d["tags"])
                            THEN "store_commit" ELSE "store_tags"]
    /\ UNCHANGED <<dbvars, writer>>
    /\ Others

\* conn.commit(); return idea_id
StoreCommit(p) ==
    /\ proc[p].pc = "store_commit"
    /\ Install(txn.tables)
    /\ writer' = 0
    /\ txn' = NoTxn
    /\ proc' = [proc EXCEPT ![p] =
                  [@ EXCEPT !.pc = "done", !.commits = @ + 1]]
    /\ Others

CallInsert(p, d) ==
    /\ proc[p].pc = "idle"
    /\ ideaSeq + Cardinality(Inserting) < MaxIdeas
    /\ proc' = [proc EXCEPT ![p] = [pc |-> "ins_insert", d |-> d, id |-> 0]]
    /\ UNCHANGED <<dbvars, writer, txn>>
    /\ Others

\* insert_idea: INSERT INTO ideas on the connection of get_db_cursor()
InsertBegin(p) ==
    /\ proc[p].pc = "ins_insert"
    /\ writer = 0
    /\ LET t == WithIdea(Tables, proc[p].d, Get(proc[p].d, "generated_date", now))
       IN /\ txn' = [owner |-> p, tables |-> t]
          /\ proc' = [proc EXCEPT ![p].id = t.ideaSeq,
                        ![p].pc = IF \/ TruthySeq(proc[p].d, "tags")
                                     \/ Has(proc[p].d, "market_data")
                                  THEN "ins_nested" ELSE "ins_commit"]
    /\ writer' = p
    /\ UNCHANGED dbvars
    /\ Others

\* insert_idea: the INSERT times out on another connection's lock and raises.
InsertBusy(p) ==
    /\ proc[p].pc = "ins_insert"
    /\ Locked(writer)
    /\ proc' = [proc EXCEPT ![p] =
                  [pc |-> "done", op |-> "insert_idea", raised |-> TRUE, id |-> 0]]
    /\ UNCHANGED <<dbvars, writer, txn>>
    /\ Others

\* insert_idea_tags / insert_market_data: a connection of their own, whose
\* first write waits for the lock its caller holds, times out and raises;
\* the caller's get_db_cursor() rolls back and re-raises.
InsertNested(p) ==
    /\ proc[p].pc = "ins_nested"
    /\ Locked(writer)
    /\ writer' = 0
    /\ txn' = NoTxn
    /\ proc' = [proc EXCEPT ![p] =
                  [pc |-> "done", op |-> "insert_idea", raised |-> TRUE, id |-> 0]]
    /\ UNCHANGED dbvars
    /\ Others

\* insert_idea: conn.commit() on leaving get_db_cursor(); return idea_id
InsertCommit(p) ==
    /\ proc[p].pc = "ins_commit"
    /\ Install(txn.tables)
    /\ writer' = 0
    /\ txn' = NoTxn
    /\ proc' = [proc EXCEPT ![p] =
                  [pc |-> "done", op |-> "insert_idea", raised |-> FALSE,
                   id |-> proc[p].id]]
    /\ Others

CallDelete(p, id) ==
    /\ proc[p].pc = "idle"
    /\ proc' = [proc EXCEPT ![p] = [pc |-> "del_select", id |-> id]]
    /\ UNCHANGED <<dbvars, writer, txn>>
    /\ Others

\* delete_idea: SELECT title FROM ideas WHERE id = ?
DeleteSelect(p) ==
    /\ proc[p].pc = "del_select"
    /\ proc' = [proc EXCEPT ![p] =
                  IF proc[p].id \in IdeaIds(ideas)
                  THEN [@ EXCEPT !.pc = "del_delete"]
                  ELSE [pc |-> "done", op |-> "delete_idea", id |-> proc[p].id,
                        result |-> FALSE]]
    /\ UNCHANGED <<dbvars, writer, txn>>
    /\ Others

\* delete_idea: DELETE FROM ideas WHERE id = ? gets the write lock.  No row
\* (deleted meanwhile) or a foreign-key error: the call returns False.
DeleteDelete(p) ==
    /\ proc[p].pc = "del_delete"
    /\ writer = 0
    /\ LET o == DeleteIdeaOutcome(Tables, proc[p].id)
       IN IF o.result
          THEN /\ writer' = p
               /\ txn' = [owner |-> p, tables |-> o.tables]
               /\ proc' = [proc EXCEPT ![p].pc = "del_commit"]
          ELSE /\ proc' = [proc EXCEPT ![p] =
                             [pc |-> "done", op |-> "delete_idea",
                              id |-> proc[p].id, result |-> FALSE]]
               /\ UNCHANGED <<writer, txn>>
    /\ UNCHANGED dbvars
    /\ Others

\* delete_idea: the DELETE times out on another connection's lock; the
\* exception is caught and the call returns False.
DeleteBusy(p) ==
    /\ proc[p].pc = "del_delete"
    /\ Locked(writer)
    /\ proc' = [proc EXCEPT ![p] =
                  [pc |-> "done", op |-> "delete_idea", id |-> proc[p].id,
                   result |-> FALSE]]
    /\ UNCHANGED <<dbvars, writer, txn>>
    /\ Others

\* delete_idea: conn.commit() on leaving get_db_cursor(); return True
DeleteCommit(p) ==
    /\ proc[p].pc = "del_commit"
    /\ Install(txn.tables)
    /\ writer' = 0
    /\ txn' = NoTxn
    /\ proc' = [proc EXCEPT ![p] =
                  [pc |-> "done", op |-> "delete_idea", id |-> proc[p].id,
                   result |-> TRUE]]
    /\ Others

\* log_generation_attempt(True, idea_id=id) after a store, one unit of work
ConcLog(p) ==
    /\ proc[p].pc = "done"
    /\ proc[p].op = "store_idea_in_database"
    /\ proc[p].id # 0
    /\ writer = 0
    /\ Len(generation_log) < MaxLog
    /\ Install(WithLog(Tables, TRUE, proc[p].id, now))
    /\ proc' = [proc EXCEPT ![p] = Idle]
    /\ UNCHANGED <<writer, txn>>
    /\ Others

\* The call has returned to its caller.
ConcReturn(p) ==
    /\ proc[p].pc = "done"
    /\ proc' = [proc EXCEPT ![p] = Idle]
    /\ UNCHANGED <<dbvars, writer, txn>>
    /\ Others

ConcNext ==
    \E p \in Procs :
        \/ \E d \in ConcStorePayloads : CallStore(p, d)
        \/ StoreBegin(p)
        \/ StoreBusy(p)
        \/ StoreError(p)
        \/ StoreTag(p)
        \/ StoreCommit(p)
        \/ \E d \in ConcInsertPayloads : CallInsert(p, d)
        \/ InsertBegin(p)
        \/ InsertBusy(p)
        \/ InsertNested(p)
        \/ InsertCommit(p)
        \/ \E id \in 1..MaxIdeas : CallDelete(p, id)
        \/ DeleteSelect(p)
        \/ DeleteDelete(p)
        \/ DeleteBusy(p)
        \/ DeleteCommit(p)
        \/ ConcLog(p)
        \/ ConcReturn(p)

\* Two callers running insert_idea, store_idea_in_database and delete_idea
\* statement by statement.
SpecConc == Init /\ [][ConcNext]_vars

-----------------------------------------------------------------------------
(* Properties of the tag store *)

UniqueTags(t) ==
    \A j, k \in 1..Len(t.tags) :
        (t.tags[j].category = t.tags[k].category
            /\ t.tags[j].value = t.tags[k].value) => j = k

TagLinksResolve(t) ==
    \A it \in t.idea_tags :
        /\ it[1] \in IdeaIds(t.ideas)
        /\ \E k \in 1..Len(t.tags) : t.tags[k].id = it[2]

\* Every table state a connection can see: the committed one and the
\* lock holder's own.
Views == {Tables} \cup (IF txn = NoTxn THEN {} ELSE {txn.tables})

\* A step keeps every tags row and adds one only for a new pair.
TagRowsReused ==
    /\ Len(tags') >= Len(tags)
    /\ SubSeq(tags', 1, Len(tags)) = tags
    /\ \A k \in (Len(tags) + 1)..Len(tags') :
          ~HasTag(SubSeq(tags', 1, k - 1), tags'[k].category, tags'[k].value)

\* C7: under every interleaving of insert_idea, store_idea_in_database and
\* delete_idea, tags holds at most one row per (category, value), every
\* idea_tags row references an existing idea and an existing tag, and a
\* known (category, value) is attached by reusing its row.
C7_TagStoreConsistent ==
    /\ [](\A t \in Views : UniqueTags(t) /\ TagLinksResolve(t))
    /\ [][TagRowsReused]_vars

\* Two ideas share one tags row, the second stored by a call that found the
\* database locked by the other caller and tried again.
C7_Witness ==
    /\ \E a, b \in IdeaIds(ideas), k \in 1..Len(tags) :
          a # b /\ <<a, tags[k].id>> \in idea_tags /\ <<b, tags[k].id>> \in idea_tags
    /\ \E p \in Procs :
          /\ proc[p].pc = "done"
          /\ proc[p].op = "store_idea_in_database"
          /\ proc[p].attempt > 0
          /\ proc[p].id # 0

-----------------------------------------------------------------------------
(* The generation script: main() and retry_generation(), one run.          *)
(* What the surroundings decide is drawn at the step that meets it: whether *)
(* the methodology file opens, what the assistant process answers, whether  *)
(* the store and the log write get through to the database.                 *)

MaxRetryAttempts == 3

\* What one invocation of the assistant can come to:
\*  "fail"       non-zero exit, timeout or no executable (returns None)
\*  "empty"      exit 0 with blank output
\*  "nojson"     output without a { ... } span
\*  "badjson"    a span json.loads rejects
\*  "invalid"    an object validate_idea_structure rejects
\*  "unhashable" an object that passes validation with a tag whose category
\*               is a list, which enhance_with_metadata cannot put in a set
\*  "good"       a valid idea
Answers == {"fail", "empty", "nojson", "badjson", "invalid", "unhashable", "good"}

\* execute_claude_cli: None on failure, else stdout; `if not response`
CliGivesNothing(a) == a \in {"fail", "empty"}
\* parse_claude_response returns None
ParseFails(a) == a \in {"nojson", "badjson"}
\* validate_idea_structure returns False
ValidationFails(a) == a = "invalid"
\* enhance_with_metadata raises
EnhanceRaises(a) == a = "unhashable"

GenPayload ==
    Merge(Text1, [tags |-> <<Tag("technology", AI), Tag("complexity", <<"m">>)>>])

GenQuiet == UNCHANGED <<now, resp, writer, txn, proc, chat, projects>>

\* python scripts/generate_idea.py
GenStart ==
    /\ run = NoRun
    /\ run' = [pc |-> "m_load", attempt |-> 0, answer |-> "", log |-> <<>>,
               calls |-> 0, fails |-> 0, retries |-> 0, failedAt |-> "",
               stored |-> <<>>, late |-> FALSE, stdout |-> <<>>, exit |-> -1,
               uncaught |-> FALSE]
    /\ UNCHANGED dbvars
    /\ GenQuiet

\* main: load_claude_methodology() and construct_idea_generation_prompt();
\* a missing file raises into main's except clause.
MainLoad ==
    /\ run.pc = "m_load"
    /\ \E ok \in BOOLEAN :
          run' = IF ok THEN [run EXCEPT !.pc = "m_cli"]
                 ELSE [run EXCEPT !.pc = "m_except", !.failedAt = "load"]
    /\ UNCHANGED dbvars
    /\ GenQuiet

\* main: response = execute_claude_cli(prompt); if not response: log, retry
MainCli ==
    /\ run.pc = "m_cli"
    /\ \E a \in Answers :
          run' = [run EXCEPT
                    !.calls = @ + 1,
                    !.fails = IF a = "fail" THEN @ + 1 ELSE @,
                    !.answer = a,
                    !.pc = IF CliGivesNothing(a) THEN "m_log" ELSE "m_parse",
                    !.failedAt = IF CliGivesNothing(a) THEN "cli" ELSE @,
                    !.log = IF CliGivesNothing(a)
                            THEN <<FALSE, 0, "retry">> ELSE @]
    /\ UNCHANGED dbvars
    /\ GenQuiet

\* main: idea_data = parse_claude_response(response)
MainParse ==
    /\ run.pc = "m_parse"
    /\ run' = IF ParseFails(run.answer)
              THEN [run EXCEPT !.pc = "m_log", !.failedAt = "parse",
                               !.log = <<FALSE, 0, "retry">>]
              ELSE [run EXCEPT !.pc = "m_validate"]
    /\ UNCHANGED dbvars
    /\ GenQuiet

\* main: if not validate_idea_structure(idea_data)
MainValidate ==
    /\ run.pc = "m_validate"
    /\ run' = IF ValidationFails(run.answer)
              THEN [run EXCEPT !.pc = "m_log", !.failedAt = "validate",
                               !.log = <<FALSE, 0, "retry">>]
              ELSE [run EXCEPT !.pc = "m_enhance"]
    /\ UNCHANGED dbvars
    /\ GenQuiet

\* main: enhanced_idea = enhance_with_metadata(idea_data)
MainEnhance ==
    /\ run.pc = "m_enhance"
    /\ run' = IF EnhanceRaises(run.answer)
              THEN [run EXCEPT !.pc = "m_except", !.failedAt = "enhance"]
              ELSE [run EXCEPT !.pc = "m_store"]
    /\ UNCHANGED dbvars
    /\ GenQuiet

\* main: idea_id = store_idea_in_database(enhanced_idea): the id, or None
\* when the database stayed locked or refused the write.
MainStore ==
    /\ run.pc = "m_store"
    /\ \/ LET o == StoreIdeaOutcome(Tables, GenPayload, now)
          IN /\ Install(o.tables)
             /\ run' = [run EXCEPT !.pc = "m_log",
                                   !.stored = Append(@, o.id),
                                   !.log = <<TRUE, o.id, "true">>]
       \/ /\ run' = [run EXCEPT !.pc = "m_log", !.failedAt = "store",
                                !.log = <<FALSE, 0, "false">>]
          /\ UNCHANGED dbvars
    /\ GenQuiet

\* What main does once the entry is written: return retry_generation(),
\* print the marker and return True, or return False.
AfterMainLog(r) ==
    CASE r.log[3] = "retry" ->
            [r EXCEPT !.pc = "r_load", !.attempt = 0, !.retries = 1]
      [] r.log[3] = "true" ->
            [r EXCEPT !.pc = "exit", !.exit = 0,
                      !.stdout = Append(@, <<"GENERATED_IDEA_ID", r.log[2]>>)]
      [] OTHER -> [r EXCEPT !.pc = "exit", !.exit = 1]

\* main: log_generation_attempt(...) inside the try block; an error of the
\* log write lands in main's except clause.
MainLog ==
    /\ run.pc = "m_log"
    /\ \/ /\ Install(WithLog(Tables, run.log[1], run.log[2], now))
          /\ run' = AfterMainLog(run)
       \/ /\ run' = [run EXCEPT !.pc = "m_except"]
          /\ UNCHANGED dbvars
    /\ GenQuiet

\* main: except Exception: log_generation_attempt(False, "Unexpected
\* error: ..."); return False.  An error of this log write leaves main
\* uncaught and the interpreter exits with status 1.
MainExcept ==
    /\ run.pc = "m_except"
    /\ \/ /\ Install(WithLog(Tables, FALSE, 0, now))
          /\ run' = [run EXCEPT !.pc = "exit", !.exit = 1]
       \/ /\ run' = [run EXCEPT !.pc = "exit", !.exit = 1, !.uncaught = TRUE]
          /\ UNCHANGED dbvars
    /\ GenQuiet

\* for attempt in range(max_attempts): the next turn of the loop, or
\* "All retry attempts failed": return False
NextTurn(r) ==
    IF r.attempt + 1 < MaxRetryAttempts
    THEN [r EXCEPT !.pc = "r_load", !.attempt = @ + 1, !.retries = @ + 1,
                   !.late = @ \/ r.stored # <<>>]
    ELSE [r EXCEPT !.pc = "exit", !.exit = 1]

\* retry_generation: load_claude_methodology() and the prompt; an
\* exception is caught by the loop's except clause.
RetryLoad ==
    /\ run.pc = "r_load"
    /\ \E ok \in BOOLEAN :
          run' = IF ok THEN [run EXCEPT !.pc = "r_cli"] ELSE NextTurn(run)
    /\ UNCHANGED dbvars
    /\ GenQuiet

\* retry_generation: response = execute_claude_cli(retry_prompt);
\* if not response: continue
RetryCli ==
    /\ run.pc = "r_cli"
    /\ \E a \in Answers :
          LET r == [run EXCEPT !.calls = @ + 1,
                               !.fails = IF a = "fail" THEN @ + 1 ELSE @,
                               !.answer = a]
          IN run' = IF CliGivesNothing(a) THEN NextTurn(r)
                    ELSE [r EXCEPT !.pc = "r_check"]
    /\ UNCHANGED dbvars
    /\ GenQuiet

\* retry_generation: parse, validate (continue on failure) and enhance
\* (an exception is caught by the loop's except clause)
RetryCheck ==
    /\ run.pc = "r_check"
    /\ run' = IF \/ ParseFails(run.answer)
                 \/ ValidationFails(run.answer)
                 \/ EnhanceRaises(run.answer)
              THEN NextTurn(run)
              ELSE [run EXCEPT !.pc = "r_store"]
    /\ UNCHANGED dbvars
    /\ GenQuiet

\* retry_generation: idea_id = store_idea_in_database(enhanced_idea)
RetryStore ==
    /\ run.pc = "r_store"
    /\ \/ LET o == StoreIdeaOutcome(Tables, GenPayload, now)
          IN /\ Install(o.tables)
             /\ run' = [run EXCEPT !.pc = "r_log", !.stored = Append(@, o.id),
                                   !.log = <<TRUE, o.id, "true">>]
       \/ /\ run' = NextTurn(run)
          /\ UNCHANGED dbvars
    /\ GenQuiet

\* retry_generation: log_generation_attempt(True, idea_id=idea_id);
\* return True.  An error of the log write is caught by the loop's except
\* clause and the loop goes on.
RetryLog ==
    /\ run.pc = "r_log"
    /\ \/ /\ Install(WithLog(Tables, run.log[1], run.log[2], now))
          /\ run' = [run EXCEPT !.pc = "exit", !.exit = 0]
       \/ /\ run' = NextTurn(run)
          /\ UNCHANGED dbvars
    /\ GenQuiet

GenNext ==
    \/ GenStart
    \/ MainLoad
    \/ MainCli
    \/ MainParse
    \/ MainValidate
    \/ MainEnhance
    \/ MainStore
    \/ MainLog
    \/ MainExcept
    \/ RetryLoad
    \/ RetryCli
    \/ RetryCheck
    \/ RetryStore
    \/ RetryLog

\* One run of the generation script on an empty store.
SpecGen == Init /\ [][GenNext]_vars

-----------------------------------------------------------------------------
(* Properties of a generation run *)

Exited == run.pc = "exit"

\* C8: a failure of the initial attempt at any step starts the retry
\* sequence; the sequence makes at most 3 further attempts, starts none
\* after an attempt stored an idea, and the run exits with failure only
\* after all of them failed.
C8_AnyInitialFailureIsRetried ==
    Exited =>
        /\ run.failedAt # "" => run.retries > 0
        /\ run.retries <= MaxRetryAttempts
        /\ ~run.late
        /\ run.exit = 1 => (run.retries = MaxRetryAttempts /\ run.stored = <<>>)

\* C9: when the assistant failed on the initial attempt and on each of the
\* 3 retries, the run invoked it exactly 4 times and appended one failed
\* generation_log entry per attempt, 4 in all.
C9_OneFailedEntryPerAttempt ==
    (Exited /\ run.calls = 1 + MaxRetryAttempts /\ run.fails = run.calls) =>
        /\ Len(generation_log) = 1 + MaxRetryAttempts
        /\ \A k \in 1..Len(generation_log) : ~generation_log[k].success

\* C10: a run appends at least one generation_log entry before it exits; a
\* failed initial attempt is logged before the retry sequence begins; and
\* the last entry's success flag is the run's outcome (an idea stored and
\* exit status 0).
C10_EveryRunIsLogged ==
    /\ (run # NoRun /\ run.retries > 0) =>
          (generation_log # <<>> /\ ~generation_log[1].success)
    /\ Exited =>
          /\ generation_log # <<>>
          /\ generation_log[Len(generation_log)].success =
                (run.stored # <<>> /\ run.exit = 0)

\* C11: a run that stored an idea and exits with status 0 has written
\* exactly one line GENERATED_IDEA_ID:<id> to its standard output, <id>
\* being the id of the idea it stored, whether the initial attempt or a
\* retry stored it; a run that exits non-zero has written no such line.
C11_MarkerLineOnSuccess ==
    Exited =>
        /\ (run.exit = 0 /\ run.stored # <<>>) =>
              (/\ Len(run.stdout) = 1
               /\ \E k \in 1..Len(run.stored) :
                     run.stdout[1] = <<"GENERATED_IDEA_ID", run.stored[k]>>)
        /\ run.exit # 0 => run.stdout = <<>>

-----------------------------------------------------------------------------
(* POST /api/ideas/generate/: generate_new_idea runs the generation script  *)
(* as a subprocess and looks the new idea up, while other generation runs   *)
(* (manual or scheduled) may store ideas of their own.                      *)

FallbackLimit == 10

\* The request handler is process 1.
Handler == proc[1]

OtherPayload == Merge(Text2, [tags |-> <<Tag("technology", ML)>>])

\* get_idea_by_id(idea_id): None (0 here) when the row is missing
GetIdeaById(t, id) == IF id \in IdeaIds(t.ideas) THEN id ELSE 0

\* for line in result.stdout.splitlines(): the id of the first marker line
MarkerId(stdout) ==
    IF \E k \in 1..Len(stdout) : stdout[k][1] = "GENERATED_IDEA_ID"
    THEN stdout[CHOOSE k \in 1..Len(stdout) :
                    /\ stdout[k][1] = "GENERATED_IDEA_ID"
                    /\ \A j \in 1..(k - 1) : stdout[j][1] # "GENERATED_IDEA_ID"][2]
    ELSE 0

\* for idea in new_ideas: if idea['id'] > max_id_before: newest_idea = idea;
\* break; else new_ideas[0]; 0 when there is none
FallbackPick(new_ideas, max_id_before) ==
    LET later == {k \in 1..Len(new_ideas) : new_ideas[k].id > max_id_before}
    IN IF later # {}
       THEN new_ideas[CHOOSE k \in later : \A j \in later : k <= j].id
       ELSE IF new_ideas # <<>> THEN new_ideas[1].id ELSE 0

\* The answers the handler can give once the script exited with status 0.
FoundIdeas(t, stdout, max_id_before) ==
    IF MarkerId(stdout) # 0
    THEN {GetIdeaById(t, MarkerId(stdout))}
    ELSE {GetIdeaById(t, FallbackPick(l, max_id_before)) :
            l \in GetIdeasWithFilters(t, [limit |-> FallbackLimit, offset |-> 0])}

Answer(status, id) == [op |-> "generate_new_idea", status |-> status, id |-> id]

\* current_ideas = get_ideas_with_filters({'limit': 1, 'offset': 0});
\* max_id_before = current_ideas[0]['id'] if current_ideas else 0
GenerateCall ==
    /\ Handler = Idle
    /\ Ready
    /\ run = NoRun
    /\ \E l \in GetIdeasWithFilters(Tables, [limit |-> 1, offset |-> 0]) :
          proc' = [proc EXCEPT ![1] =
                      [pc |-> "ep_run", op |-> "generate_new_idea",
                       before |-> IF l # <<>> THEN l[1].id ELSE 0]]
    /\ UNCHANGED <<dbvars, now, resp, writer, txn, run, chat, projects>>

\* subprocess.run([sys.executable, script_path], ...): the script's steps
GenerateScript ==
    /\ Handler.pc = "ep_run"
    /\ GenNext

\* subprocess.TimeoutExpired: the child is killed, the handler answers 500
GenerateTimeout ==
    /\ Handler.pc = "ep_run"
    /\ run.pc # "exit"
    /\ run' = [pc |-> "killed", stored |-> IF run = NoRun THEN <<>> ELSE run.stored]
    /\ resp' = Answer(500, 0)
    /\ proc' = [proc EXCEPT ![1] = [pc |-> "ep_done"]]
    /\ UNCHANGED <<dbvars, now, writer, txn, chat, projects>>

\* result.returncode != 0: 500; else the marker or the fallback lookup
GenerateAnswer ==
    /\ Handler.pc = "ep_run"
    /\ run.pc = "exit"
    /\ IF run.exit # 0
       THEN resp' = Answer(500, 0)
       ELSE \E id \in FoundIdeas(Tables, run.stdout, Handler.before) :
               resp' = IF id = 0 THEN Answer(500, 0) ELSE Answer(200, id)
    /\ proc' = [proc EXCEPT ![1] = [pc |-> "ep_done"]]
    /\ UNCHANGED <<dbvars, now, writer, txn, run, chat, projects>>

\* Another run of the generation script stores its idea.
OtherRunStores ==
    /\ Len(ideas) < MaxIdeas
    /\ Install(StoreIdeaOutcome(Tables, OtherPayload, now).tables)
    /\ UNCHANGED <<now, resp, writer, txn, proc, run, chat, projects>>

GenerateNext ==
    \/ GenerateCall
    \/ GenerateScript
    \/ GenerateTimeout
    \/ GenerateAnswer
    \/ OtherRunStores
    \/ Tick

SpecGenerate == Init /\ [][GenerateNext]_vars

\* C12: when the script launched by the endpoint exits with status 0 the
\* endpoint returns an idea stored by that script run, with or without the
\* marker line and whatever other runs store meanwhile; when the script
\* exits non-zero or is timed out the endpoint answers 500 with no idea.
C12_EndpointReturnsOwnIdea ==
    resp.op = "generate_new_idea" =>
        IF run.pc = "exit" /\ run.exit = 0
        THEN resp.status = 200 /\ resp.id \in SeqToSet(run.stored)
        ELSE resp.status = 500 /\ resp.id = 0

\* The other run's idea is returned although it is strictly newer than the
\* idea the script stored.
C12_NewerForeignIdea ==
    ~(/\ resp.op = "generate_new_idea"
      /\ resp.status = 200
      /\ run.stored # <<>>
      /\ resp.id \notin SeqToSet(run.stored)
      /\ \A k \in 1..Len(run.stored) :
            IdeaRow(ideas, resp.id).generated_date >
                IdeaRow(ideas, run.stored[k]).generated_date)

-----------------------------------------------------------------------------
(* Properties of store_idea_in_database *)

StoreCalls ==
    {p \in Procs :
        \/ proc[p].pc \in {"store_insert", "store_tags", "store_commit"}
        \/ proc[p].pc = "done" /\ proc[p].op = "store_idea_in_database"}

\* 1, 1.5, 2.25 and 3.375 seconds, in sixteenths
ClaimedWaits == <<16, 24, 36, 54>>

\* C13: one call makes at most 5 storage attempts; a further attempt
\* follows only a "database is locked/busy" error; any other error ends the
\* call with failure and no retry; after 5 busy failures the call returns
\* failure; the wait before attempt k+1 is 1.5^(k-1) seconds (k = 1..4) and
\* no wait follows the 5th attempt.
C13_BoundedBusyRetry ==
    \A p \in StoreCalls :
        LET c == proc[p]
            busy == c.attempt
        IN /\ c.tries <= MaxStoreAttempts
           /\ c.tries = Min(busy + 1, MaxStoreAttempts)
           /\ c.errors <= 1
           /\ c.errors = 1 => (c.pc = "done" /\ c.id = 0)
           /\ busy = MaxStoreAttempts => (c.pc = "done" /\ c.id = 0)
           /\ c.waits = SubSeq(ClaimedWaits, 1, Min(busy, MaxStoreAttempts - 1))

\* A call that found the database locked five times and gave up.
C13_Witness ==
    \E p \in StoreCalls :
        /\ proc[p].pc = "done"
        /\ proc[p].attempt = MaxStoreAttempts
        /\ proc[p].id = 0
        /\ Len(proc[p].waits) = MaxStoreAttempts - 1

StoreReturns(p) ==
    /\ proc[p].pc \in {"store_insert", "store_tags", "store_commit"}
    /\ proc'[p].pc = "done"

-----------------------------------------------------------------------------
(* validate_idea_structure, on JSON values: a text is known by its length, *)
(* an object by its keys, a list by its items.                             *)

TitleMax == 200
SummaryMax == 500

Str(n) == [k |-> "str", n |-> n]
Num(v) == [k |-> "num", v |-> v]
Null == [k |-> "null"]
List(items) == [k |-> "list", items |-> items]
Obj(keys) == [k |-> "obj", keys |-> keys]

\* Python truth value: `not idea_data[field]`
Truthy(v) ==
    CASE v.k = "str" -> v.n > 0
      [] v.k = "num" -> v.v # 0
      [] v.k = "list" -> v.items # <<>>
      [] v.k = "obj" -> v.keys # {}
      [] OTHER -> FALSE

\* len(v): -1 stands for the TypeError of a value without a length
PyLen(v) ==
    CASE v.k = "str" -> v.n
      [] v.k = "list" -> Len(v.items)
      [] v.k = "obj" -> Cardinality(v.keys)
      [] OTHER -> -1

required_fields ==
    <<"title", "summary", "description", "supporting_logic", "tags", "market_analysis">>

\* A length check that lets every length pass
NeverLonger(v, max) == FALSE

\* len(idea_data[field]) > max
Longer(v, max) == PyLen(v) > max

\* isinstance(tag, dict) and 'category' in tag and 'value' in tag
TagOk(tag) == tag.k = "obj" /\ {"category", "value"} \subseteq tag.keys

\* The body of the try block: "True", "False", or "raise" where a
\* statement raises (len() of a number).
ValidateBody(d) ==
    IF \E i \in 1..Len(required_fields) :
          \/ required_fields[i] \notin DOMAIN d
          \/ ~Truthy(d[required_fields[i]])
    THEN "False"
    ELSE IF d["tags"].k # "list" \/ Len(d["tags"].items) = 0 THEN "False"
    ELSE IF \E j \in 1..Len(d["tags"].items) : ~TagOk(d["tags"].items[j])
         THEN "False"
    ELSE IF d["market_analysis"].k # "obj" THEN "False"
    ELSE IF PyLen(d["title"]) < 0 THEN "raise"
    ELSE IF Longer(d["title"], TitleMax) THEN "False"
    ELSE IF PyLen(d["summary"]) < 0 THEN "raise"
    ELSE IF Longer(d["summary"], SummaryMax) THEN "False"
    ELSE "True"

\* validate_idea_structure(idea_data): except Exception: return False
ValidateIdeaStructure(d) ==
    [result |-> ValidateBody(d) = "True", raised |-> FALSE]

TagObjects ==
    {Obj({"category", "value"}), Obj({"category", "value", "weight"}),
     Obj({"category"}), Obj({}), Str(3)}

TagLists ==
    {List(<<>>)} \cup {List(<<a>>) : a \in TagObjects}
       \cup {List(<<Obj({"category", "value"}), a>>) : a \in TagObjects}

FieldValues(f) ==
    CASE f = "title" -> {Str(0), Str(1), Str(TitleMax), Str(TitleMax + 1), Num(7), Null}
      [] f = "summary" -> {Str(0), Str(TitleMax + 1), Str(SummaryMax), Str(SummaryMax + 1), Num(7)}
      [] f = "description" -> {Str(0), Str(1)}
      [] f = "supporting_logic" -> {Null, Str(1)}
      [] f = "tags" -> TagLists \cup {Str(3), Obj({"category", "value"})}
      [] OTHER -> {Obj({}), Obj({"market_size"}), List(<<Str(1)>>), Str(3)}

FieldNames == {required_fields[i] : i \in 1..Len(required_fields)}

FullPayloads ==
    {[title |-> a, summary |-> b, description |-> c, supporting_logic |-> e,
      tags |-> t, market_analysis |-> m] :
        a \in FieldValues("title"), b \in FieldValues("summary"),
        c \in FieldValues("description"), e \in FieldValues("supporting_logic"),
        t \in FieldValues("tags"), m \in FieldValues("market_analysis")}

\* A full payload, or one with a single field left out
ValidatePayloads ==
    FullPayloads \cup {Pop(d, {g}) : d \in FullPayloads, g \in FieldNames}

\* validate_idea_structure(d) is called
CallValidate(d) ==
    /\ Ready
    /\ resp' = [op |-> "validate_idea_structure", d |-> d,
                out |-> ValidateIdeaStructure(d)]
    /\ UNCHANGED <<dbvars, now>>
    /\ Quiet

ValidateNext ==
    \/ \E d \in ValidatePayloads : CallValidate(d)
    \/ Return

SpecValidate == Init /\ [][ValidateNext]_vars

\* What the claim asks of a valid payload
Present(d, f) == f \in DOMAIN d /\ Truthy(d[f])

IsText(v, max) == v.k = "str" /\ v.n <= max

ClaimedValid(d) ==
    /\ \A f \in FieldNames : Present(d, f)
    /\ d["tags"].k = "list"
    /\ d["tags"].items # <<>>
    /\ \A j \in 1..Len(d["tags"].items) :
          /\ d["tags"].items[j].k = "obj"
          /\ "category" \in d["tags"].items[j].keys
          /\ "value" \in d["tags"].items[j].keys
    /\ d["market_analysis"].k = "obj"
    /\ IsText(d["title"], TitleMax)
    /\ IsText(d["summary"], SummaryMax)

-----------------------------------------------------------------------------
(* parse_claude_response, on texts of four kinds of token: the two braces, *)
(* "v" for a complete member ("key": scalar) and "t" for any other text.   *)

MaxText == 4

Tokens == {"{", "}", "v", "t"}

Texts == UNION {[1..n -> Tokens] : n \in 0..MaxText}

\* response.find(c): 0 when c does not occur
Find(s, c) ==
    IF \E i \in 1..Len(s) : s[i] = c
    THEN CHOOSE i \in 1..Len(s) : s[i] = c /\ \A j \in 1..(i - 1) : s[j] # c
    ELSE 0

\* response.rfind(c): 0 when c does not occur
RFind(s, c) ==
    IF \E i \in 1..Len(s) : s[i] = c
    THEN CHOOSE i \in 1..Len(s) : s[i] = c /\ \A j \in (i + 1)..Len(s) : s[j] # c
    ELSE 0

\* Open braces less closed braces among the first i tokens
RECURSIVE Depth(_, _)
Depth(s, i) ==
    IF i = 0 THEN 0
    ELSE Depth(s, i - 1) + (IF s[i] = "{" THEN 1 ELSE IF s[i] = "}" THEN -1 ELSE 0)

\* json.loads(text) gives an object: text is one { ... } whose first brace
\* is closed by its last token, with members and nested objects inside and
\* nothing else.
IsObject(s) ==
    /\ Len(s) >= 2
    /\ s[1] = "{"
    /\ Depth(s, Len(s)) = 0
    /\ \A i \in 1..(Len(s) - 1) : Depth(s, i) > 0
    /\ \A i \in 1..Len(s) : s[i] # "t"

None == <<"None">>

\* json_content = response[start_idx:end_idx], first { to last }
JsonContent(s) == SubSeq(s, Find(s, "{"), RFind(s, "}"))

\* parse_claude_response(response): the object (here its text) or None
ParseClaudeResponse(s) ==
    IF Find(s, "{") = 0 \/ RFind(s, "}") = 0 THEN None
    ELSE IF IsObject(JsonContent(s)) THEN JsonContent(s)
    ELSE None

CallParse(s) ==
    /\ Ready
    /\ resp' = [op |-> "parse_claude_response", response |-> s,
                result |-> ParseClaudeResponse(s), raised |-> FALSE]
    /\ UNCHANGED <<dbvars, now>>
    /\ Quiet

ParseNext ==
    \/ \E s \in Texts : CallParse(s)
    \/ Return

SpecParse == Init /\ [][ParseNext]_vars

\* The first balanced { ... } span of s: from the first { to the first
\* place where the braces opened since then are all closed; <<>> if none.
FirstBalancedSpan(s) ==
    LET a == Find(s, "{")
        ends == IF a = 0 THEN {}
                ELSE {e \in a..Len(s) : Depth(s, e) = Depth(s, a - 1)}
    IN IF ends = {} THEN <<>>
       ELSE SubSeq(s, a, CHOOSE e \in ends : \A x \in ends : e <= x)

\* C16: parse_claude_response returns the object encoded by the first
\* balanced { ... } span of the text, whatever precedes or follows the span;
\* a text without { or without } gives None; it never raises.
C16_FirstBalancedSpanParsed ==
    resp.op = "parse_claude_response" =>
        /\ ~resp.raised
        /\ (Find(resp.response, "{") = 0 \/ Find(resp.response, "}") = 0) =>
              resp.result = None
        /\ IsObject(FirstBalancedSpan(resp.response)) =>
              resp.result = FirstBalancedSpan(resp.response)

-----------------------------------------------------------------------------
(* Chat: send_chat_message, websocket_chat, generate_claude_response and   *)
(* the connection manager.  The handlers are coroutines on one event loop: *)
(* a step runs from one await to the next, and the database calls in       *)
(* between are synchronous.  Each handler's `with get_db_cursor()` is a    *)
(* connection of its own whose first INSERT takes the write lock until the *)
(* block is left.                                                          *)

\* "I apologize, but I encountered an error processing your message. ..."
Apology == <<"apology">>

\* How the assistant subprocess can end
CliOutcomes == {"stdout", "blank", "nonzero", "missing", "exception"}

CliFailures == {"nonzero", "missing", "exception"}

\* call_claude_cli: the text it returns; "stderr" and "exception" stand for
\* the subprocess's stderr and the exception's message inside that text
CliReply(o) ==
    CASE o = "stdout" -> <<"stdout">>
      [] o = "blank" -> <<"ready">>
      [] o = "nonzero" -> <<"issue", "stderr">>
      [] o = "missing" -> <<"unavailable">>
      [] OTHER -> <<"technical", "exception">>

\* A row of chat_messages, as stored and as broadcast (message_data); t is
\* the handler call that wrote it
Row(t, s, role, content) ==
    [t |-> t, session_id |-> s, role |-> role, content |-> content]

\* list.remove(x)
RECURSIVE Remove(_, _)
Remove(list, x) ==
    IF list = <<>> THEN <<>>
    ELSE IF Head(list) = x THEN Tail(list)
    ELSE <<Head(list)>> \o Remove(Tail(list), x)

\* ChatConnectionManager.connect
ManagerConnect(c, l, s) == [c EXCEPT !.active_connections[s] = Append(@, l)]

\* ChatConnectionManager.disconnect
ManagerDisconnect(c, l, s) == [c EXCEPT !.active_connections[s] = Remove(@, l)]

Registered(c, l) ==
    \E s \in Sessions : \E k \in 1..Len(c.active_connections[s]) :
        c.active_connections[s][k] = l

\* A store in which a second connection could write beside the lock holder
NeverBusy(w) == FALSE

\* INSERT while another connection holds the write lock: the statement
\* blocks the event loop for the busy timeout and raises "database is locked"
Busy(w) == w # 0

SetTask(st, t, tk) == [st EXCEPT !.c.task[t] = tk]

\* The lock after the handler's second connection commits or rolls back
Release2(st, t) == IF st.c.task[t].rows = <<>> THEN 0 ELSE st.w

\* Handler call t runs on from position `at` up to its next await or end.
\* st = [c: the chat state, w: the holder of the write lock].
RECURSIVE Go(_, _, _)
Go(st, t, at) ==
    LET tk == st.c.task[t]
    IN
    CASE at = "bcast_start" ->
            \* manager.send_message(message, session_id): first listener
            IF st.c.active_connections[tk.s] = <<>>
            THEN Go(st, t, "bcast_end")
            ELSE SetTask(st, t, [tk EXCEPT !.pc = "bcast", !.i = 1,
                                   !.l = st.c.active_connections[tk.s][1]])
      [] at = "bcast_end" ->
            CASE tk.after = "user_msg" ->
                    IF tk.role = "user" THEN Go(st, t, "generate")
                    ELSE Go(st, t, "commit")
              [] tk.after = "reply" -> Go(st, t, "sent2")
              [] OTHER -> Go(st, t, "sent2")
      [] at = "bcast_raise" ->
            \* `await self.disconnect(...)` raised out of send_message
            LET back == [st EXCEPT !.c.task[t].rows2 = <<>>,
                                   !.w = Release2(st, t)]
            IN CASE tk.after = "user_msg" -> Go(st, t, "fail")
                 [] tk.after = "reply" -> Go(back, t, "gen_except")
                 [] OTHER -> Go(back, t, "fail")
      [] at = "generate" ->
            \* generate_claude_response: second connection, the two SELECTs,
            \* await call_claude_cli(...)
            SetTask(st, t, [tk EXCEPT !.pc = "gen_cli"])
      [] at = "cli_returned" ->
            \* INSERT INTO chat_messages (..., 'assistant', claude_response)
            LET row == Row(t, tk.s, "assistant", tk.reply)
                tk1 == [tk EXCEPT !.tried = Append(@, tk.reply)]
            IN IF Busy(st.w)
               THEN Go(SetTask(st, t, tk1), t, "gen_except")
               ELSE Go([SetTask(st, t, [tk1 EXCEPT !.rows2 = <<row>>, !.out = row,
                                                   !.after = "reply"])
                           EXCEPT !.w = t], t, "bcast_start")
      [] at = "gen_except" ->
            \* except Exception: a third connection stores error_response
            LET row == Row(t, tk.s, "assistant", Apology)
                tk1 == [tk EXCEPT !.tried = Append(@, Apology)]
            IN IF Busy(st.w)
               THEN Go(SetTask(st, t, tk1), t, "fail")
               ELSE Go([SetTask(st, t, [tk1 EXCEPT !.rows2 = <<row>>, !.out = row,
                                                   !.after = "apology"])
                           EXCEPT !.w = t], t, "bcast_start")
      [] at = "sent2" ->
            \* the block of generate_claude_response's connection is left:
            \* commit; back in send_chat_message
            Go([st EXCEPT !.c.messages = @ \o tk.rows2,
                          !.c.task[t].rows2 = <<>>,
                          !.w = Release2(st, t)], t, "commit")
      [] at = "commit" ->
            \* return ChatMessageResponse(...); get_db_cursor: conn.commit()
            [st EXCEPT !.c.messages = @ \o tk.rows,
                       !.c.task[t].rows = <<>>,
                       !.c.task[t].pc = "done",
                       !.c.task[t].status = 200,
                       !.w = IF st.w = t THEN 0 ELSE @]
      [] OTHER ->
            \* "fail": get_db_cursor: conn.rollback(); raise; HTTP 500, or in
            \* websocket_chat: except Exception: manager.disconnect(...)
            LET c1 == [st.c EXCEPT !.task[t].rows = <<>>,
                                   !.task[t].pc = "done",
                                   !.task[t].status = 500]
            IN [c |-> IF tk.kind = "ws" THEN ManagerDisconnect(c1, tk.ws, tk.s)
                      ELSE c1,
                w |-> IF st.w = t THEN 0 ELSE st.w]

ChatQuiet == UNCHANGED <<dbvars, now, resp, txn, proc, run, projects>>

\* The websocket handler of listener l is inside send_chat_message
WsBusy(l) ==
    \E t \in Tasks : /\ chat.task[t].pc \notin {"idle", "done"}
                     /\ chat.task[t].kind = "ws"
                     /\ chat.task[t].ws = l

\* websocket_chat: await manager.connect(websocket, session_id); a
\* WebSocket object connects once
ChatConnect(l, s) ==
    /\ l \notin chat.joined
    /\ chat' = [ManagerConnect(chat, l, s) EXCEPT !.joined = @ \cup {l}]
    /\ UNCHANGED writer
    /\ ChatQuiet

\* The peer of listener l goes away: sends to it fail from now on.
PeerGone(l) ==
    /\ Registered(chat, l)
    /\ l \notin chat.dead
    /\ chat' = [chat EXCEPT !.dead = @ \cup {l}]
    /\ UNCHANGED writer
    /\ ChatQuiet

\* websocket_chat: except WebSocketDisconnect: manager.disconnect(...)
WsClosed(l, s) ==
    /\ l \in chat.dead
    /\ \E k \in 1..Len(chat.active_connections[s]) : chat.active_connections[s][k] = l
    /\ ~WsBusy(l)
    /\ chat' = ManagerDisconnect(chat, l, s)
    /\ UNCHANGED writer
    /\ ChatQuiet

\* A message arrives, as a POST (kind "rest") or as a frame on listener l's
\* websocket (kind "ws"), and send_chat_message runs to its first await.
Receive(t, s, role, kind, l) ==
    /\ chat.task[t].pc = "idle"
    /\ t = Len(chat.received) + 1
    /\ IF kind = "ws"
       THEN /\ s \in Sessions
            /\ \E k \in 1..Len(chat.active_connections[s]) :
                  chat.active_connections[s][k] = l
            /\ l \notin chat.dead
            /\ ~WsBusy(l)
       ELSE l = 0
    /\ LET row == Row(t, s, role, <<"msg", t>>)
           tk0 == [pc |-> "start", kind |-> kind, ws |-> l, s |-> s,
                   role |-> role, i |-> 0, l |-> 0, out |-> row,
                   after |-> "user_msg", rows |-> <<>>, rows2 |-> <<>>,
                   cli |-> "", reply |-> <<>>, tried |-> <<>>, status |-> 0,
                   aud |-> IF s \in Sessions
                           THEN SeqToSet(chat.active_connections[s]) ELSE {}]
           st0 == [c |-> [chat EXCEPT !.received = Append(@, row),
                                      !.task[t] = tk0],
                   w |-> writer]
           st1 == IF s \notin Sessions
                  THEN [st0 EXCEPT !.c.task[t].pc = "done",
                                   !.c.task[t].status = 404]
                  ELSE IF Busy(writer) THEN Go(st0, t, "fail")
                  ELSE Go([st0 EXCEPT !.c.task[t].rows = <<row>>, !.w = t],
                          t, "bcast_start")
       IN /\ chat' = st1.c
          /\ writer' = st1.w
    /\ ChatQuiet

\* await connection.send_json(message) of the listener in turn is over:
\* sent, or failed and the listener dropped; then the next listener.
SendReturns(t) ==
    /\ chat.task[t].pc = "bcast"
    /\ LET tk == chat.task[t]
           st1 ==
             IF tk.l \in chat.dead
             THEN Go([c |-> ManagerDisconnect(chat, tk.l, tk.s), w |-> writer],
                     t, "bcast_raise")
             ELSE LET c1 == [chat EXCEPT !.sent[tk.l] = Append(@, tk.out)]
                      list == c1.active_connections[tk.s]
                  IN IF tk.i + 1 <= Len(list)
                     THEN [c |-> [c1 EXCEPT !.task[t].i = tk.i + 1,
                                            !.task[t].l = list[tk.i + 1]],
                           w |-> writer]
                     ELSE Go([c |-> c1, w |-> writer], t, "bcast_end")
       IN /\ chat' = st1.c
          /\ writer' = st1.w
    /\ ChatQuiet

\* await call_claude_cli(...) is over with outcome o
CliReturns(t, o) ==
    /\ chat.task[t].pc = "gen_cli"
    /\ LET st1 == Go([c |-> [chat EXCEPT !.task[t].cli = o,
                                         !.task[t].reply = CliReply(o)],
                      w |-> writer], t, "cli_returned")
       IN /\ chat' = st1.c
          /\ writer' = st1.w
    /\ ChatQuiet

ChatNext ==
    \/ \E l \in Listeners, s \in Sessions : ChatConnect(l, s)
    \/ \E l \in Listeners : PeerGone(l)
    \/ \E l \in Listeners, s \in Sessions : WsClosed(l, s)
    \/ \E t \in Tasks, s \in Sessions \cup {NoSession}, role \in {"user", "system"},
          kind \in {"rest", "ws"}, l \in Listeners \cup {0} :
            Receive(t, s, role, kind, l)
    \/ \E t \in Tasks : SendReturns(t)
    \/ \E t \in Tasks, o \in CliOutcomes : CliReturns(t, o)

SpecChat == Init /\ [][ChatNext]_vars

-----------------------------------------------------------------------------
(* Properties of the chat handlers *)

\* The stored messages of session s, in stored order
RECURSIVE OfSession(_, _)
OfSession(rows, s) ==
    IF rows = <<>> THEN <<>>
    ELSE IF Head(rows).session_id = s THEN <<Head(rows)>> \o OfSession(Tail(rows), s)
    ELSE OfSession(Tail(rows), s)

DoneUserCalls ==
    {t \in Tasks : /\ chat.task[t].pc = "done"
                   /\ chat.task[t].role = "user"
                   /\ chat.task[t].s \in Sessions}

WasSent(l, row) == \E k \in 1..Len(chat.sent[l]) : chat.sent[l][k] = row

\* C17: once send_chat_message has completed for an existing session and a
\* message of role user, the request has not ended in an error, the
\* session's stored messages hold that user message directly followed by
\* exactly one assistant message of that call, and both were sent to every
\* listener that was connected to the session throughout.
C17_UserMessageAnswered ==
    \A t \in DoneUserCalls :
        LET tk == chat.task[t]
            msgs == OfSession(chat.messages, tk.s)
            mine == {k \in 1..Len(msgs) : msgs[k].t = t}
        IN /\ tk.status = 200
           /\ \E k \in 1..(Len(msgs) - 1) :
                 /\ mine = {k, k + 1}
                 /\ msgs[k].role = "user"
                 /\ msgs[k + 1].role = "assistant"
                 /\ \A l \in (tk.aud \cap SeqToSet(chat.active_connections[tk.s]))
                                \ chat.dead :
                       WasSent(l, msgs[k]) /\ WasSent(l, msgs[k + 1])

\* C19: when the assistant subprocess failed, the assistant message stored
\* and broadcast for that user message is the fixed apology text, and no
\* text carrying the subprocess's stderr or an exception message is stored,
\* broadcast or handed to the store.
C19_FailureGivesApologyOnly ==
    \A t \in Tasks :
        (chat.task[t].pc = "done" /\ chat.task[t].cli \in CliFailures) =>
            /\ \E k \in 1..Len(chat.messages) :
                  /\ chat.messages[k].t = t
                  /\ chat.messages[k].role = "assistant"
                  /\ chat.messages[k].content = Apology
            /\ \A k \in 1..Len(chat.messages) :
                  (chat.messages[k].t = t /\ chat.messages[k].role = "assistant")
                     => chat.messages[k].content = Apology
            /\ \A k \in 1..Len(chat.task[t].tried) : chat.task[t].tried[k] = Apology

\* Rows of received messages (not the assistant's), in the order of rows
Received(rows) == SelectSeq(rows, LAMBDA r : r.role # "assistant")

\* The rows keep the order of receipt: t numbers the calls as they arrive.
InReceiptOrder(rows) ==
    \A a, b \in 1..Len(rows) :
        (a < b /\ rows[a].session_id = rows[b].session_id) => rows[a].t < rows[b].t

\* No two received messages of a session are stored, or sent to a
\* listener, against the order of their receipt.
ReceiptOrderKept ==
    /\ InReceiptOrder(Received(chat.messages))
    /\ \A l \in Listeners : InReceiptOrder(Received(chat.sent[l]))

Position(rows, t) ==
    IF \E k \in 1..Len(rows) : rows[k].t = t /\ rows[k].role # "assistant"
    THEN CHOOSE k \in 1..Len(rows) : rows[k].t = t /\ rows[k].role # "assistant"
    ELSE 0

\* C20: of two messages received for one session, the one received first
\* is stored before the other and is sent before it to every listener of
\* the session, whatever the handlers of this and of other sessions do in
\* between.
C20_StoredAndSentInReceiptOrder ==
    /\ ReceiptOrderKept
    /\ \A t1, t2 \in Tasks :
          (/\ t1 < t2
           /\ chat.task[t1].pc = "done"
           /\ chat.task[t2].pc = "done"
           /\ chat.task[t1].s = chat.task[t2].s
           /\ chat.task[t1].s \in Sessions)
          => /\ Position(chat.messages, t2) # 0 =>
                   (/\ Position(chat.messages, t1) # 0
                    /\ Position(chat.messages, t1) < Position(chat.messages, t2))
             /\ \A l \in chat.task[t1].aud \ chat.dead :
                   Position(chat.sent[l], t2) # 0 =>
                      (/\ Position(chat.sent[l], t1) # 0
                       /\ Position(chat.sent[l], t1) < Position(chat.sent[l], t2))

-----------------------------------------------------------------------------
(* ChatConnectionManager.send_message as one call, no other coroutine       *)
(* running between its sends.                                              *)

\* for connection in self.active_connections[session_id]: from index i on.
\* A failed send drops the listener and then awaits the None that
\* disconnect() returned, which raises out of the loop.
RECURSIVE SendLoop(_, _, _, _)
SendLoop(c, s, m, i) ==
    IF i > Len(c.active_connections[s]) THEN [c |-> c, raised |-> FALSE]
    ELSE LET l == c.active_connections[s][i]
         IN IF l \in c.dead
            THEN [c |-> ManagerDisconnect(c, l, s), raised |-> TRUE]
            ELSE SendLoop([c EXCEPT !.sent[l] = Append(@, m)], s, m, i + 1)

\* await manager.send_message(message, session_id)
ManagerSend(m, s) ==
    /\ Ready
    /\ Len(chat.received) < MaxTasks
    /\ LET out == SendLoop([chat EXCEPT !.received = Append(@, m)], s, m, 1)
       IN /\ chat' = out.c
          /\ resp' = [op |-> "send_message", m |-> m, s |-> s,
                      before |-> chat, after |-> out.c, raised |-> out.raised]
    /\ UNCHANGED <<dbvars, now, writer, txn, proc, run, projects>>

ManagerNext ==
    \/ \E l \in Listeners, s \in Sessions : ChatConnect(l, s)
    \/ \E l \in Listeners : PeerGone(l)
    \/ \E l \in Listeners, s \in Sessions : WsClosed(l, s)
    \/ \E s \in Sessions : ManagerSend(Row(Len(chat.received) + 1, s, "system", <<"msg">>), s)
    \/ Return

SpecManager == Init /\ [][ManagerNext]_vars

\* C18: send_message(m, s) does not raise; every listener of s whose send
\* succeeds has received m exactly once and stays registered; every
\* listener of s whose send fails is removed; the lists of the other
\* sessions are unchanged.
C18_SendMessageDropsDeadOnly ==
    resp.op = "send_message" =>
        LET b == resp.before
            a == resp.after
            was == SeqToSet(b.active_connections[resp.s])
            is == SeqToSet(a.active_connections[resp.s])
        IN /\ ~resp.raised
           /\ \A l \in was \ b.dead :
                 /\ a.sent[l] = Append(b.sent[l], resp.m)
                 /\ l \in is
           /\ \A l \in was \cap b.dead : l \notin is
           /\ \A s \in Sessions \ {resp.s} :
                 a.active_connections[s] = b.active_connections[s]

-----------------------------------------------------------------------------
(* Termination of the two assistant call sites *)

\* execute_claude_cli: subprocess.run(..., timeout=300) ends the wait for
\* the child whether or not it exits (TimeoutExpired -> return None), so no
\* step of a run waits for ever.
SpecGenLive == SpecGen /\ WF_vars(GenNext)

\* A started run of the generation script exits.
GenerationRunEnds == (run # NoRun) ~> Exited

\* call_claude_cli: `await process.communicate()` carries no timeout
\* (no asyncio.wait_for); the only step that ends the wait is the exit of
\* the subprocess, CliReturns, which a subprocess that never exits does not
\* take.  The websocket sends are taken to complete.
SpecChatLive == SpecChat /\ WF_vars(\E t \in Tasks : SendReturns(t))

-----------------------------------------------------------------------------
(* The listener registry under interleaved tasks: websocket_chat handlers, *)
(* one send_message at a time and delete_chat_session.  A step runs from   *)
(* one await to the next.                                                  *)

RegQuiet == UNCHANGED <<dbvars, now, resp, writer, txn, proc, run, projects>>

Elems(list) == {list[k] : k \in 1..Len(list)}

\* ChatConnectionManager.disconnect on the registry r: nothing when the
\* session is no key; list.remove raises ValueError when the websocket is
\* not in the key's list; the key goes with its last websocket.
Disconnect(r, l, s) ==
    IF r.dict[s] = 0 THEN r
    ELSE LET k == r.dict[s]
         IN IF l \notin Elems(r.lists[k])
            THEN [r EXCEPT !.raised = @ \cup {<<"disconnect", "ValueError", l>>}]
            ELSE LET rest == Remove(r.lists[k], l)
                 IN [r EXCEPT !.lists[k] = rest,
                              !.dict[s] = IF rest = <<>> THEN 0 ELSE k]

\* websocket_chat: await manager.connect(websocket, session_id): accept,
\* make the key's list when the session is no key, append
RegConnect(l, s) ==
    /\ chat.reg.ws[l].state = "new"
    /\ LET r == chat.reg
           r1 == IF r.dict[s] = 0
                 THEN [r EXCEPT !.made = @ + 1, !.dict[s] = r.made + 1,
                                !.lists[r.made + 1] = <<l>>]
                 ELSE [r EXCEPT !.lists[r.dict[s]] = Append(@, l)]
       IN chat' = [chat EXCEPT !.reg = [r1 EXCEPT !.ws[l] = [state |-> "open", s |-> s]]]
    /\ RegQuiet

\* The client of websocket l goes away.
RegPeerGone(l) ==
    /\ chat.reg.ws[l].state = "open"
    /\ chat' = [chat EXCEPT !.reg.ws[l].state = "gone"]
    /\ RegQuiet

\* websocket_chat: receive_json raises (WebSocketDisconnect, or an error on
\* a websocket the server closed): manager.disconnect(websocket, session_id)
RegHandlerEnds(l) ==
    /\ chat.reg.ws[l].state \in {"gone", "closed"}
    /\ LET r1 == Disconnect(chat.reg, l, chat.reg.ws[l].s)
       IN chat' = [chat EXCEPT !.reg = [r1 EXCEPT !.ws[l].state = "ended"]]
    /\ RegQuiet

\* send_message(message, s): `if session_id in self.active_connections`,
\* then the first `await connection.send_json(message)` of the loop over
\* the key's list object
RegSendStart(s) ==
    /\ chat.reg.bcast.pc = "idle"
    /\ chat.reg.dict[s] # 0
    /\ LET k == chat.reg.dict[s]
       IN chat' = [chat EXCEPT !.reg.bcast =
                      [pc |-> "send", s |-> s, list |-> k, i |-> 1,
                       l |-> chat.reg.lists[k][1]]]
    /\ RegQuiet

\* The send in turn is over.  It fails on a websocket that was closed or
\* whose handler is over, and may fail on one whose peer went away; then
\* `await self.disconnect(...)` removes it and raises.  Else the loop goes
\* on with the next index of the list object as it is now.
RegSendReturns ==
    /\ chat.reg.bcast.pc = "send"
    /\ LET r == chat.reg
           b == r.bcast
           st == r.ws[b.l].state
       IN \E fails \in BOOLEAN :
            /\ st = "open" => ~fails
            /\ st \in {"closed", "ended"} => fails
            /\ chat' = [chat EXCEPT !.reg =
                  IF fails
                  THEN [Disconnect(r, b.l, b.s) EXCEPT
                           !.bcast = [pc |-> "idle"],
                           !.raised = @ \cup {<<"send_message", "TypeError", b.l>>}]
                  ELSE IF b.i + 1 <= Len(r.lists[b.list])
                  THEN [r EXCEPT !.bcast.i = b.i + 1,
                                 !.bcast.l = r.lists[b.list][b.i + 1]]
                  ELSE [r EXCEPT !.bcast = [pc |-> "idle"]]]
    /\ RegQuiet

\* del manager.active_connections[session_id]: KeyError when the key is gone
DelKey(r, s) ==
    IF r.dict[s] = 0
    THEN [r EXCEPT !.raised = @ \cup {<<"delete_chat_session", "KeyError", s>>}]
    ELSE [r EXCEPT !.dict[s] = 0]

\* await connection.close() is issued on websocket l
CloseIssued(r, l) ==
    IF r.ws[l].state \in {"open", "gone"} THEN [r EXCEPT !.ws[l].state = "closed"]
    ELSE r

\* delete_chat_session(s), once per session: when s is a key, the loop over
\* a copy of its list up to the first `await connection.close()`
RegDeleteStart(s) ==
    /\ chat.reg.del.pc = "idle"
    /\ s \notin chat.reg.asked
    /\ LET r == [chat.reg EXCEPT !.asked = @ \cup {s}]
           k == r.dict[s]
       IN chat' = [chat EXCEPT !.reg =
             IF k = 0 THEN r
             ELSE [CloseIssued(r, r.lists[k][1]) EXCEPT
                      !.del = [pc |-> "close", s |-> s, copy |-> r.lists[k],
                               i |-> 1, was |-> r.ws[r.lists[k][1]].state]]]
    /\ RegQuiet

\* The close in turn is over: closing a websocket that was closed already
\* or whose handler is over may raise (the handler answers 500); else the
\* next close, and after the last one the key is deleted.
RegCloseReturns ==
    /\ chat.reg.del.pc = "close"
    /\ LET r == chat.reg
           d == r.del
       IN \E raises \in BOOLEAN :
            /\ d.was \in {"open", "gone"} => ~raises
            /\ chat' = [chat EXCEPT !.reg =
                  IF raises
                  THEN [r EXCEPT !.del = [pc |-> "idle"],
                                 !.raised = @ \cup {<<"delete_chat_session", "RuntimeError", d.s>>}]
                  ELSE IF d.i + 1 <= Len(d.copy)
                  THEN [CloseIssued(r, d.copy[d.i + 1]) EXCEPT
                           !.del.i = d.i + 1,
                           !.del.was = r.ws[d.copy[d.i + 1]].state]
                  ELSE [DelKey(r, d.s) EXCEPT !.del = [pc |-> "idle"]]]
    /\ RegQuiet

RegistryNext ==
    \/ \E l \in Listeners, s \in Sessions : RegConnect(l, s)
    \/ \E l \in Listeners : RegPeerGone(l)
    \/ \E l \in Listeners : RegHandlerEnds(l)
    \/ \E s \in Sessions : RegSendStart(s)
    \/ RegSendReturns
    \/ \E s \in Sessions : RegDeleteStart(s)
    \/ RegCloseReturns

SpecRegistry == Init /\ [][RegistryNext]_vars

\* The accepted websockets of session s that have neither disconnected nor
\* been closed
OpenOf(s) ==
    {l \in Listeners : chat.reg.ws[l].state = "open" /\ chat.reg.ws[l].s = s}

\* ... and those whose peer went away while their handler has not yet run
\* manager.disconnect
LeavingOf(s) ==
    {l \in Listeners : chat.reg.ws[l].state = "gone" /\ chat.reg.ws[l].s = s}

NoDuplicates(list) ==
    \A i, j \in 1..Len(list) : list[i] = list[j] => i = j

\* C22: under every interleaving of connects, disconnects, broadcasts and
\* session deletions, a session is a key of the registry exactly when it
\* has an accepted websocket that has neither disconnected nor been closed
\* by a deletion, the key's list holds exactly those websockets, each once,
\* and is never empty, and manager.disconnect never raises for a websocket
\* that was already removed.  (Read in the claim's favour: a websocket whose
\* peer went away may still be listed until its handler runs, and a
\* session is not judged while its deletion is between its awaits.)
C22_RegistryExact ==
    LET r == chat.reg
    IN /\ \A s \in Sessions :
             (r.del.pc = "idle" \/ r.del.s # s) =>
                IF r.dict[s] = 0 THEN OpenOf(s) = {}
                ELSE LET list == r.lists[r.dict[s]]
                     IN /\ list # <<>>
                        /\ NoDuplicates(list)
                        /\ OpenOf(s) \subseteq Elems(list)
                        /\ Elems(list) \subseteq OpenOf(s) \cup LeavingOf(s)
       /\ \A e \in r.raised : e[1] # "disconnect"

\* The parts of C22 that hold: a key never maps to an empty list, and no
\* list holds a websocket twice
RegistryListsSound ==
    \A s \in Sessions :
        chat.reg.dict[s] # 0 =>
            /\ chat.reg.lists[chat.reg.dict[s]] # <<>>
            /\ NoDuplicates(chat.reg.lists[chat.reg.dict[s]])

-----------------------------------------------------------------------------
(* The generation log under the operations that write the store:           *)
(* log_generation_attempt, store, delete_idea, the duplicate-removal       *)
(* script and cleanup_old_logs.                                            *)

\* The clock counts half days (UTC).
DayTicks == 2

\* days_to_keep arguments
DaysOptions == {0, 1}

\* How far the local time of the process is ahead of UTC, in clock ticks
UtcOffsets == {-1, 0, 1}

\* datetime.now(): local time
LocalNow(tz) == now + tz

\* TRIM(title)
RECURSIVE Trim(_)
Trim(s) ==
    IF s = <<>> THEN s
    ELSE IF Head(s) = " " THEN Trim(Tail(s))
    ELSE IF s[Len(s)] = " " THEN Trim(SubSeq(s, 1, Len(s) - 1))
    ELSE s

\* LOWER(TRIM(title))
TitleKey(title) == LET s == Trim(title) IN [i \in 1..Len(s) |-> Fold(s[i])]

\* remove_duplicates: per title key every id but the lowest
DeleteIds(t) ==
    {t.ideas[k].id : k \in
        {k \in 1..Len(t.ideas) :
            \E j \in 1..Len(t.ideas) :
                /\ TitleKey(t.ideas[j].title) = TitleKey(t.ideas[k].title)
                /\ t.ideas[j].id < t.ideas[k].id}}

\* remove_duplicates(dry_run=False): DELETE FROM generation_log, idea_tags,
\* market_data WHERE idea_id = ?, DELETE FROM ideas WHERE id = ?
RemoveDuplicatesOutcome(t) ==
    LET gone == DeleteIds(t)
    IN [t EXCEPT
          !.generation_log = SelectSeq(@, LAMBDA r : r.idea_id \notin gone),
          !.idea_tags = {it \in @ : it[1] \notin gone},
          !.market_data = {m \in @ : m.idea_id \notin gone},
          !.ideas = SelectSeq(@, LAMBDA r : r.id \notin gone)]

\* python scripts/remove_duplicates.py --execute
RemoveDuplicates ==
    /\ Ready
    /\ Install(RemoveDuplicatesOutcome(Tables))
    /\ resp' = [op |-> "remove_duplicates", gone |-> DeleteIds(Tables)]
    /\ UNCHANGED now
    /\ Quiet

\* cleanup_old_logs: cutoff_date = datetime.now() - timedelta(days);
\* DELETE FROM generation_log WHERE timestamp < cutoff_date
CleanupOutcome(t, days, local) ==
    [t EXCEPT !.generation_log =
        SelectSeq(@, LAMBDA r : ~(r.timestamp < local - days * DayTicks))]

CleanupOldLogs(days, tz) ==
    /\ Ready
    /\ Install(CleanupOutcome(Tables, days, LocalNow(tz)))
    /\ resp' = [op |-> "cleanup_old_logs", days |-> days]
    /\ UNCHANGED now
    /\ Quiet

LogNext ==
    \/ \E d \in StorePayloads : ideaSeq < MaxIdeas /\ StoreIdea(d, 0)
    \/ \E id \in IdeaIds(ideas) : LogGenerationAttempt(TRUE, id)
    \/ LogGenerationAttempt(FALSE, 0)
    \/ Tick
    \/ \E id \in 1..MaxIdeas : DeleteIdea(id)
    \/ RemoveDuplicates
    \/ \E days \in DaysOptions, tz \in UtcOffsets : CleanupOldLogs(days, tz)
    \/ Return

SpecLog == Init /\ [][LogNext]_vars

\* The rows before are the first rows after, unchanged
IsPrefix(a, b) == Len(a) <= Len(b) /\ SubSeq(b, 1, Len(a)) = a

\* C23: the generation log is append-only: no operation but cleanup_old_logs
\* removes or changes a generation_log row, and cleanup_old_logs(days)
\* removes exactly the rows whose timestamp is older than now minus days.
C23_LogAppendOnly ==
    [][ /\ resp'.op # "cleanup_old_logs" => IsPrefix(generation_log, generation_log')
        /\ (resp = NoResp /\ resp'.op = "cleanup_old_logs") =>
              generation_log' =
                 SelectSeq(generation_log,
                           LAMBDA r : ~(r.timestamp < now - resp'.days * DayTicks))
      ]_vars

\* The part of C23 that holds: the application's own operations
\* (log_generation_attempt, store, delete_idea) only append to the log
LogKeptByApplication ==
    [][ resp'.op \in {"log_generation_attempt", "store_idea_in_database",
                      "delete_idea", "none"} =>
            IsPrefix(generation_log, generation_log') ]_vars

\* cleanup_old_logs in a process whose local time is UTC removes exactly
\* the rows older than now minus days
CleanupExactInUtc ==
    [][ (resp = NoResp /\ resp'.op = "cleanup_old_logs"
         /\ generation_log' # SelectSeq(generation_log,
                   LAMBDA r : ~(r.timestamp < now - resp'.days * DayTicks)))
        => \E tz \in UtcOffsets \ {0} :
              generation_log' = CleanupOutcome(Tables, resp'.days, LocalNow(tz)).generation_log
      ]_vars

-----------------------------------------------------------------------------
(* enhance_with_metadata *)

MaxTags == 2

\* A tag category that is a JSON list (e.g. ["ai"]): it passes
\* validate_idea_structure and cannot be put into a Python set
CatList == "[list]"

EnhanceCategories == TagCategories \cup {"custom", CatList}

Hashable(c) == c # CatList

required_categories == {"industry", "target_market", "complexity", "technology"}

MarketKeys ==
    {"market_size", "competitors", "technical_feasibility", "development_timeline"}

\* market_analysis.get(key, default): the defaults
MarketDefault(k) ==
    CASE k = "market_size" -> <<"Not specified">>
      [] k = "competitors" -> <<>>
      [] k = "technical_feasibility" -> <<"Not assessed">>
      [] OTHER -> <<"Not estimated">>

\* enhanced['market_data'] = {...}
MarketDataOf(market_analysis) ==
    [k \in MarketKeys |-> Get(market_analysis, k, MarketDefault(k))]

\* The defaults appended by the loop over the set missing_categories;
\* complexityFirst: the order in which the set yields the two categories
DefaultTags(existing, complexityFirst) ==
    LET c == IF "complexity" \in existing THEN <<>>
             ELSE <<Tag("complexity", <<"medium">>)>>
        m == IF "target_market" \in existing THEN <<>>
             ELSE <<Tag("target_market", <<"b2c">>)>>
    IN IF complexityFirst THEN c \o m ELSE m \o c

\* enhance_with_metadata(idea_data) at time `clock`: the value returned, or
\* raised when a category is unhashable, and the caller's idea_data after
\* the call.  idea_data.copy() is a shallow copy: enhanced['tags'] is the
\* caller's list object, so what is appended to it is appended for both.
EnhanceWithMetadata(d, clock, complexityFirst) ==
    IF \E j \in 1..Len(d["tags"]) : ~Hashable(d["tags"][j].category)
    THEN [raised |-> TRUE, result |-> None, idea_data |-> d]
    ELSE LET existing == {d["tags"][j].category : j \in 1..Len(d["tags"])}
             list == d["tags"] \o DefaultTags(existing, complexityFirst)
         IN [raised |-> FALSE,
             result |-> Merge(d, [generated_date |-> clock,
                                  market_data |-> MarketDataOf(d["market_analysis"]),
                                  tags |-> list]),
             idea_data |-> [d EXCEPT !["tags"] = list]]

\* Tag lists of 1..MaxTags tags
RECURSIVE TagSeqs(_)
TagSeqs(n) ==
    IF n = 0 THEN {<<>>}
    ELSE LET shorter == TagSeqs(n - 1)
         IN shorter \cup
            {Append(s, Tag(c, <<"v">>)) : s \in {x \in shorter : Len(x) = n - 1},
                                         c \in EnhanceCategories}

\* market_analysis objects: non-empty, any of the four sub-fields present
MarketAnalyses ==
    {[k \in K |-> IF k = "competitors" THEN <<(<<"c1">>), (<<"c2">>)>> ELSE <<"t">>] :
        K \in (SUBSET MarketKeys) \ {{}}}
    \cup {[notes |-> <<"t">>]}

\* Payloads that validate_idea_structure accepts
EnhancePayloads ==
    {Merge(Text1, [tags |-> t, market_analysis |-> m]) :
        t \in TagSeqs(MaxTags) \ {<<>>}, m \in MarketAnalyses}

CallEnhance(d) ==
    /\ Ready
    /\ \E complexityFirst \in BOOLEAN :
          resp' = [op |-> "enhance_with_metadata", d |-> d,
                   out |-> EnhanceWithMetadata(d, now, complexityFirst)]
    /\ UNCHANGED <<dbvars, now>>
    /\ Quiet

EnhanceNext ==
    \/ \E d \in EnhancePayloads : CallEnhance(d)
    \/ Return

SpecEnhance == Init /\ [][EnhanceNext]_vars

\* The tag list and market data the claim describes for payload d
ClaimedTagLists(d) ==
    LET has(c) == \E j \in 1..Len(d["tags"]) : d["tags"][j].category = c
    IN {d["tags"] \o DefaultTags({c \in {"complexity", "target_market"} : has(c)}, o) :
           o \in BOOLEAN}

ClaimedMarketData(d) ==
    [k \in MarketKeys |->
        IF k \in DOMAIN d["market_analysis"] THEN d["market_analysis"][k]
        ELSE MarketDefault(k)]

\* C24: for every validated payload d, enhance_with_metadata(d) returns a
\* payload whose tags are d's tags in their order followed by
\* complexity=medium exactly when d had no complexity tag and by
\* target_market=b2c exactly when d had no target_market tag, with no
\* default for industry or technology; its market_data holds the four
\* sub-fields of market_analysis with the fixed default for each missing
\* one; and the caller's d, its tag list included, is left unmodified.
C24_EnhanceAsClaimed ==
    resp.op = "enhance_with_metadata" =>
        /\ ~resp.out.raised
        /\ resp.out.result["tags"] \in ClaimedTagLists(resp.d)
        /\ resp.out.result["market_data"] = ClaimedMarketData(resp.d)
        /\ resp.out.idea_data = resp.d

\* The part of C24 that holds: when the call returns, the returned tags and
\* market data are as claimed
EnhanceResultAsClaimed ==
    (resp.op = "enhance_with_metadata" /\ ~resp.out.raised) =>
        /\ resp.out.result["tags"] \in ClaimedTagLists(resp.d)
        /\ resp.out.result["market_data"] = ClaimedMarketData(resp.d)
        /\ resp.out.result["generated_date"] = now

-----------------------------------------------------------------------------
(* Units of work and awaits *)

\* The handler call t is suspended at an await: a websocket send of a
\* broadcast, or call_claude_cli
Suspended(t) == chat.task[t].pc \in {"bcast", "gen_cli"}

\* The uncommitted rows of the connections that call t has open
Uncommitted(t) == chat.task[t].rows \o chat.task[t].rows2

\* C25: no task holds an open database transaction with uncommitted writes
\* while it is suspended awaiting the assistant subprocess, a websocket
\* send or a nested unit of work with a connection of its own: each unit of
\* work commits or rolls back and releases its connection before the task
\* starts another one.
C25_NoTransactionAcrossAwait ==
    \A t \in Tasks : Suspended(t) => (Uncommitted(t) = <<>> /\ writer # t)

-----------------------------------------------------------------------------
(* Projects: create_project, update_project, get_project *)

MaxProjects == 1

\* Folder paths: an existing directory given absolute, one given relative
\* to the working directory, and a path that does not exist
FolderOk == <<"/", "ok">>
FolderRel == <<"rel">>
FolderMissing == <<"/", "missing">>

\* folder_path.exists() and folder_path.is_dir()
IsDir(path) == path \in {FolderOk, FolderRel}

\* str(folder_path.absolute())
Absolute(path) == IF Head(path) = "/" THEN path ELSE <<"/", "cwd">> \o path

\* ProjectCreate bodies
ProjectPayloads ==
    {[name |-> v.name, description |-> <<"d">>, folder_path |-> f,
      status |-> v.status, repository_url |-> v.url, idea_ids |-> ids] :
        v \in {[name |-> <<"n1">>, status |-> "planning", url |-> None],
               [name |-> <<"n2">>, status |-> "development", url |-> <<"url">>]},
        f \in {FolderOk, FolderRel, FolderMissing},
        ids \in {<<>>, <<1>>, <<2, 1>>, <<2, 3>>}}

ProjectRowIds(pr) == {pr.rows[k].id : k \in 1..Len(pr.rows)}

\* The idea_projects rows for `ids`, the ids that get_idea_by_id finds
Connections(t, ids, project_id) ==
    {<<ids[k], project_id>> : k \in {k \in 1..Len(ids) : ids[k] \in IdeaIds(t.ideas)}}

\* INSERT INTO projects ...; INSERT INTO idea_projects ... per existing idea
CreateOutcome(pr, t, u, clock) ==
    LET id == Len(pr.rows) + 1
        row == [id |-> id, name |-> u.name, description |-> u.description,
                folder_path |-> Absolute(u.folder_path), status |-> u.status,
                repository_url |-> u.repository_url,
                created_at |-> clock, updated_at |-> clock]
    IN [rows |-> Append(pr.rows, row),
        idea_projects |-> pr.idea_projects \cup Connections(t, u.idea_ids, id)]

\* UPDATE projects SET ... WHERE id = ?; DELETE FROM idea_projects WHERE
\* project_id = ?; INSERT INTO idea_projects ... per existing idea
UpdateOutcome(pr, t, id, u, clock) ==
    [rows |-> [k \in 1..Len(pr.rows) |->
                  IF pr.rows[k].id = id
                  THEN [pr.rows[k] EXCEPT
                          !.name = u.name, !.description = u.description,
                          !.folder_path = Absolute(u.folder_path),
                          !.status = u.status,
                          !.repository_url = u.repository_url,
                          !.updated_at = clock]
                  ELSE pr.rows[k]],
     idea_projects |-> {ip \in pr.idea_projects : ip[2] # id}
                          \cup Connections(t, u.idea_ids, id)]

\* What a connection other than the writer's reads: the committed tables,
\* not the writer's uncommitted changes
OthersRead(committed, uncommitted) == committed

\* get_project(project_id) on the tables pr that its connection reads (no
\* project_analyses row is written here: last_analysis is None)
GetProject(pr, id) ==
    IF id \notin ProjectRowIds(pr) THEN [status |-> 404]
    ELSE LET row == pr.rows[CHOOSE k \in 1..Len(pr.rows) : pr.rows[k].id = id]
         IN [status |-> 200,
             project |-> Merge(row,
                 [idea_count |-> Cardinality({ip \in pr.idea_projects : ip[2] = id}),
                  last_analysis |-> None])]

ProjQuiet == UNCHANGED <<dbvars, now, writer, txn, proc, run, chat>>

\* POST /api/projects/ with an existing folder
CreateProject(u) ==
    /\ Ready
    /\ Len(projects.rows) < MaxProjects
    /\ IsDir(u.folder_path)
    /\ projects' = CreateOutcome(projects, Tables, u, now)
    /\ resp' = [op |-> "create_project", status |-> 200]
    /\ ProjQuiet

\* PUT /api/projects/{id}: inside `with get_db_cursor()`, the statements of
\* the update, then `return await get_project(project_id)`, which reads on a
\* connection of its own, and only then the commit of the with block
UpdateProject(id, u) ==
    /\ Ready
    /\ IF id \notin ProjectRowIds(projects)
       THEN /\ resp' = [op |-> "update_project", id |-> id, u |-> u, status |-> 404]
            /\ UNCHANGED projects
       ELSE IF ~IsDir(u.folder_path)
       THEN /\ resp' = [op |-> "update_project", id |-> id, u |-> u, status |-> 400]
            /\ UNCHANGED projects
       ELSE LET updated == UpdateOutcome(projects, Tables, id, u, now)
                answer == GetProject(OthersRead(projects, updated), id)
            IN /\ projects' = updated
               /\ resp' = [op |-> "update_project", id |-> id, u |-> u,
                           status |-> answer.status, project |-> answer.project]
    /\ ProjQuiet

ProjectNext ==
    \/ ideaSeq < MaxIdeas /\ StoreIdea(BulkPayload, 0)
    \/ Tick
    \/ \E u \in ProjectPayloads : CreateProject(u)
    \/ \E id \in 1..MaxProjects, u \in ProjectPayloads : UpdateProject(id, u)
    \/ Return

SpecProjects == Init /\ [][ProjectNext]_vars

\* The fields of payload u as written to project row `row`
WrittenFrom(u, row) ==
    /\ row.name = u.name
    /\ row.description = u.description
    /\ row.folder_path = Absolute(u.folder_path)
    /\ row.status = u.status
    /\ row.repository_url = u.repository_url

ExistingIdeasOf(u) ==
    {u.idea_ids[k] : k \in 1..Len(u.idea_ids)} \cap IdeaIds(ideas)

\* C26: update_project(id, u) on an existing project with a valid folder
\* returns the updated project: name, description, folder path, status and
\* repository URL of the response are the values written from u, and
\* idea_count is the number of existing ideas listed in u.idea_ids.
C26_UpdateReturnsUpdated ==
    (resp.op = "update_project" /\ resp.status = 200) =>
        /\ WrittenFrom(resp.u, resp.project)
        /\ resp.project.idea_count = Cardinality(ExistingIdeasOf(resp.u))

\* What holds: the request commits the values of u (a following
\* get_project returns them)
UpdateCommitsPayload ==
    (resp.op = "update_project" /\ resp.status = 200) =>
        LET after == GetProject(projects, resp.id)
        IN /\ after.status = 200
           /\ WrittenFrom(resp.u, after.project)
           /\ after.project.idea_count = Cardinality(ExistingIdeasOf(resp.u))

-----------------------------------------------------------------------------
(* insert_idea followed by get_idea_by_id *)

\* get_idea_by_id(id) in full: None, or the ideas row with its tags and its
\* market_data row (competitors decoded) or None
IdeaById(t, id) ==
    IF id \notin IdeaIds(t.ideas) THEN None
    ELSE LET row == IdeaRow(t.ideas, id)
             market == {m \in t.market_data : m.idea_id = id}
         IN Merge(row,
              [tags |-> TagsOfIdea(t, id),
               market_data |->
                  IF market = {} THEN None
                  ELSE LET m == CHOOSE m \in market : TRUE
                       IN [m EXCEPT !.competitors = JsonLoads(@)]])

Competitors == <<(<<"c2">>), (<<"c1">>)>>

\* idea_data dictionaries: without tags, with an empty and a non-empty tag
\* list, without and with market data
RoundTripPayloads ==
    {Merge(Merge(x, tg), md) :
        x \in {Text1, Text2, Text3},
        tg \in {NoKeys, [tags |-> <<>>], [tags |-> <<Tag("technology", AI)>>],
                [tags |-> <<Tag("industry", WM), Tag("technology", AI)>>]},
        md \in {NoKeys, [market_data |-> [k \in {} |-> 0]],
                [market_data |-> [market_size |-> <<"x">>,
                                  competitors |-> Competitors]]}}

\* id = insert_idea(d), then get_idea_by_id(id)
InsertThenGet(d) ==
    /\ ideaSeq < MaxIdeas
    /\ Ready
    /\ LET o == InsertIdeaOutcome(Tables, d, now)
       IN /\ Install(o.tables)
          /\ resp' = [op |-> "insert_then_get", d |-> d, raised |-> o.raised,
                      id |-> o.id, before |-> Tables,
                      got |-> IF o.raised THEN None ELSE IdeaById(o.tables, o.id)]
    /\ UNCHANGED now
    /\ Quiet

RoundTripNext ==
    \/ \E d \in RoundTripPayloads : InsertThenGet(d)
    \/ Return

SpecRoundTrip == Init /\ [][RoundTripNext]_vars

\* The tags of payload d as a set
TagSetOf(d) ==
    IF Has(d, "tags") THEN {d["tags"][k] : k \in 1..Len(d["tags"])} ELSE {}

\* The read returns what d holds
SameAs(d, got) ==
    /\ got # None
    /\ got.title = d.title
    /\ got.summary = d.summary
    /\ got.description = d.description
    /\ got.supporting_logic = d.supporting_logic
    /\ got.tags = TagSetOf(d)
    /\ TruthyDict(d, "market_data") =>
          /\ got.market_data # None
          /\ got.market_data.competitors = d["market_data"].competitors

\* C27: for every payload d, also with a non-empty tag list and market
\* data, insert_idea(d) returns the new id and get_idea_by_id(id) then
\* returns the same title, summary, description and supporting_logic,
\* exactly d's set of tags and market data with d's competitors in order;
\* if a part of the insert fails, no row of d remains.
C27_InsertThenGetReturnsPayload ==
    resp.op = "insert_then_get" =>
        /\ ~resp.raised
        /\ resp.id = resp.before.ideaSeq + 1
        /\ SameAs(resp.d, resp.got)
        /\ resp.raised => Tables = resp.before

\* What holds: a payload with no tag and no market data is stored and read
\* back as claimed, and an insert that fails leaves no row behind
PlainInsertRoundTrip ==
    resp.op = "insert_then_get" =>
        /\ resp.raised = (TruthySeq(resp.d, "tags") \/ TruthyDict(resp.d, "market_data"))
        /\ ~resp.raised => (resp.id = resp.before.ideaSeq + 1 /\ SameAs(resp.d, resp.got))
        /\ resp.raised => Tables = resp.before

-----------------------------------------------------------------------------
(* Ideas stored by one run *)

\* C28: one run of the generation script stores at most one idea: across
\* the initial attempt and all retries, also when the generation_log write
\* fails after an idea was stored, the ideas table gains at most one row
\* from the run, and exactly one row exactly when the run exits with
\* status 0.
C28_AtMostOneIdeaPerRun ==
    /\ run # NoRun => (Len(run.stored) <= 1 /\ Len(ideas) = Len(run.stored))
    /\ Exited => (Len(run.stored) = 1 <=> run.exit = 0)

\* What holds: a run that exits with status 0 has stored an idea, and a
\* run stores a second idea only in a retry begun after an idea was stored
\* (the retry's log write failed)
OneIdeaUnlessLogFails ==
    Exited =>
        /\ run.exit = 0 => Len(run.stored) >= 1
        /\ ~run.late => Len(run.stored) <= 1

-----------------------------------------------------------------------------
(* Broadcast and stored messages *)

\* The message frames of handler call t that were sent to a listener
FramesSent(t) ==
    {row \in UNION {Elems(chat.sent[l]) : l \in Listeners} : row.t = t}

\* C29: every chat message frame that was broadcast to a session's
\* listeners is persisted: once the request that produced it has
\* completed, with success or with an error, chat_messages holds a row
\* with that message in the session.
C29_BroadcastIsPersisted ==
    \A t \in Tasks :
        chat.task[t].pc = "done" => FramesSent(t) \subseteq Elems(chat.messages)

\* What holds: the frames of a request that ended with status 200 are stored
BroadcastPersistedOnSuccess ==
    \A t \in Tasks :
        (chat.task[t].pc = "done" /\ chat.task[t].status = 200) =>
            FramesSent(t) \subseteq Elems(chat.messages)

-----------------------------------------------------------------------------
(* The generation pipeline's storage step: enhance, store, read back *)

\* Validated payloads handed to the pipeline
PipelinePayloads ==
    {Merge(Text1, [tags |-> <<Tag(c, <<"v">>)>>, market_analysis |-> m]) :
        c \in EnhanceCategories,
        m \in {[market_size |-> <<"t">>, competitors |-> Competitors],
               [notes |-> <<"t">>]}}

\* main: enhanced_idea = enhance_with_metadata(idea_data); idea_id =
\* store_idea_in_database(enhanced_idea); then get_idea_by_id(idea_id).
\* An exception of the enhancement ends the attempt before the store.
StoreEnhanced(d) ==
    /\ ideaSeq < MaxIdeas
    /\ Ready
    /\ \E complexityFirst \in BOOLEAN :
          LET e == EnhanceWithMetadata(d, now, complexityFirst)
          IN IF e.raised
             THEN /\ resp' = [op |-> "store_enhanced", id |-> 0, before |-> Tables]
                  /\ UNCHANGED dbvars
             ELSE LET o == StoreIdeaOutcome(Tables, e.result, now)
                  IN /\ Install(o.tables)
                     /\ resp' = [op |-> "store_enhanced", id |-> o.id,
                                 before |-> Tables, enhanced |-> e.result,
                                 got |-> IdeaById(o.tables, o.id)]
    /\ UNCHANGED now
    /\ Quiet

\* insert_market_data(idea_id, market_data) called on its own; the row of
\* an idea that does not exist is refused (foreign key)
InsertMarketData(idea_id, md) ==
    /\ Ready
    /\ idea_id \in IdeaIds(ideas)
    /\ Install(WithMarketData(Tables, idea_id, md))
    /\ resp' = [op |-> "insert_market_data"]
    /\ UNCHANGED now
    /\ Quiet

PipelineNext ==
    \/ \E d \in PipelinePayloads : StoreEnhanced(d)
    \/ \E id \in 1..MaxIdeas :
          InsertMarketData(id, [market_size |-> <<"x">>, competitors |-> Competitors])
    \/ \E id \in IdeaIds(ideas) : LogGenerationAttempt(TRUE, id)
    \/ Return

SpecPipeline == Init /\ [][PipelineNext]_vars

\* C30: store_idea_in_database, as the pipeline uses it, changes only the
\* ideas, tags and idea_tags tables: market_data and generation_log are as
\* before, so get_idea_by_id returns market_data = None for the stored idea
\* although the enhance step built a market_data record for it.
C30_StoreLeavesMarketData ==
    (resp.op = "store_enhanced" /\ resp.id # 0) =>
        /\ market_data = resp.before.market_data
        /\ generation_log = resp.before.generation_log
        /\ Len(ideas) = Len(resp.before.ideas) + 1
        /\ TruthyDict(resp.enhanced, "market_data")
        /\ resp.got # None
        /\ resp.got.title = resp.enhanced.title
        /\ resp.got.tags = TagSetOf(resp.enhanced)
        /\ resp.got.market_data = None

\* An idea was stored by the pipeline with market data built from its
\* market_analysis, while market_data and generation_log held rows of
\* another idea.
C30_Witness ==
    /\ resp.op = "store_enhanced"
    /\ resp.id # 0
    /\ resp.enhanced["market_data"].competitors = Competitors
    /\ market_data # {}
    /\ generation_log # <<>>
    /\ resp.got.market_data = None

=============================================================================
